---- MODULE Spec2Model ----
(***************************************************************************)
(* Canvas state and history engine of the pixel editor (src/file.go,       *)
(* src/layer.go).  The File struct is the record `f`; every method of File *)
(* is an operator from a File record (and its arguments) to the File       *)
(* record after the call, and every action of the state machine applies    *)
(* one method to the variable `f`.                                         *)
(*                                                                         *)
(* Go reference semantics that the methods rely on are kept:               *)
(*   - a *Layer is a layer identity (a number); Layers and deletedLayers   *)
(*     hold identities;                                                    *)
(*   - a map[IntVec2]rl.Color is a reference: Maps is the heap of pixel    *)
(*     maps and LayerPixelData[l] is the reference held by layer l, so two *)
(*     holders of one reference see each other's writes;                   *)
(*   - an index out of range panics: the record's `panicked` flag is set   *)
(*     and the program takes no further step.                              *)
(* Indices (CurrentLayer, LayerIndex) are 0-based as in the source; the    *)
(* TLA+ sequences are 1-based, hence the +1 at each access.                *)
(***************************************************************************)
EXTENDS Integers, Sequences, FiniteSets, TLC

\* ------------------------------------------------------------------ bounds
\* largest x and y coordinate a caller passes (canvas sizes go up to +1)
MaxX == 1
MaxY == 1
\* number of layers ever allocated in a run (caps AddNewLayer)
MaxLayers == 4
\* the value NewFile gives HistoryMaxActions, scaled down from 500
MaxHistory == 2

\* number of calls in a run of each specification
PixelCalls == 6
HistoryCalls == 5
LayerCalls == 5
ResizeCalls == 5
FlipCalls == 4
RestoreCalls == 5
\* number of animations a run adds, and of calls on the animations
MaxAnimations == 3
AnimationCalls == 5
AnchorCalls == 2
SelectionCalls == 3
SaveCalls == 4
ExportCalls == 3
FrameCalls == 4
MirrorCalls == 3
ClipboardCalls == 4
PasteCalls == 4
CancelCalls == 4
DrawCalls == 3
MenuCalls == 1
MaxHides == 2

\* the canvas size Open gives NewFile before it reads the file
OpenSize == 64

\* ------------------------------------------------------------------ colours
Transparent == 0
Red == 1
Blue == 2
Colors == {Transparent, Red, Blue}
\* the zero value rl.Color{} a Go map returns for an absent key; it has
\* alpha 0 and is taken to be the same value as rl.Transparent
ZeroColor == Transparent

Coords == (0..MaxX) \X (0..MaxY)

\* m[loc] of a Go map: the zero value when the key is absent
Get(m, loc) == IF loc \in DOMAIN m THEN m[loc] ELSE ZeroColor
\* m[loc] = c of a Go map
Put(m, loc, c) == [p \in (DOMAIN m) \cup {loc} |-> IF p = loc THEN c ELSE m[p]]
EmptyMap == [p \in {} |-> Transparent]

\* a colour with an alpha strictly between 0 and 255, and the colour that
\* compositing it over a colour that is not transparent gives (neither of the
\* two: its alpha and its RGB lie between theirs)
Glass == 3
Opaque == {Red, Blue}
Mixed(bottom, top) == 10 * bottom + top

\* Alpha compositing of `top` over `bottom`: a transparent top leaves the
\* bottom unchanged, an opaque top replaces it, and so does any top over a
\* transparent bottom; a top that is partly transparent mixes with the bottom.
BlendWithOpacity(bottom, top) ==
  IF top = Transparent THEN bottom
  ELSE IF top \in Opaque \/ bottom = Transparent THEN top
  ELSE Mixed(bottom, top)

\* ------------------------------------------------------------ history items
NoItemFields ==
  [PixelState |-> EmptyMap, LayerIndex |-> 0, HistoryLayerAction |-> "none",
   PrevLayerState |-> <<>>, CurrentLayerState |-> <<>>,
   PrevWidth |-> 0, PrevHeight |-> 0, CurrentWidth |-> 0, CurrentHeight |-> 0]

Item(type, fields, actions) ==
  [type |-> type, Actions |-> actions,
   PixelState |-> fields.PixelState, LayerIndex |-> fields.LayerIndex,
   HistoryLayerAction |-> fields.HistoryLayerAction,
   PrevLayerState |-> fields.PrevLayerState,
   CurrentLayerState |-> fields.CurrentLayerState,
   PrevWidth |-> fields.PrevWidth, PrevHeight |-> fields.PrevHeight,
   CurrentWidth |-> fields.CurrentWidth, CurrentHeight |-> fields.CurrentHeight]

HistoryPixel(pixelState, layerIndex) ==
  Item("HistoryPixel",
       [NoItemFields EXCEPT !.PixelState = pixelState, !.LayerIndex = layerIndex],
       <<>>)

HistoryLayer(action, layerIndex) ==
  Item("HistoryLayer",
       [NoItemFields EXCEPT !.HistoryLayerAction = action, !.LayerIndex = layerIndex],
       <<>>)

HistoryResize(prev, cur, pw, ph, cw, ch) ==
  Item("HistoryResize",
       [NoItemFields EXCEPT !.PrevLayerState = prev, !.CurrentLayerState = cur,
                            !.PrevWidth = pw, !.PrevHeight = ph,
                            !.CurrentWidth = cw, !.CurrentHeight = ch],
       <<>>)

CompoundHistory(actions) == Item("CompoundHistory", NoItemFields, actions)

\* ------------------------------------------------------------- the document
VARIABLES f, disk, budget, watch, last, prev, snaps, run, menu
vars == <<f, disk, budget, watch, last, prev, snaps, run, menu>>

\* The record `f` is the File together with the process-wide variables its
\* methods read and write (IsSelectionPasted, CopiedSelection,
\* CopiedSelectionBounds).  LayerName, LayerHidden and
\* LayerPixelData give the fields of each *Layer.  `disk` is the file at the
\* path SaveAs writes and Open reads.  hasInitialFill is the set of layers
\* whose flag of that name is set.  `menu` is the state NewMenuUI closes over.
\* a panic: the goroutine dies, nothing runs after it
Panic(g) == [g EXCEPT !.panicked = TRUE]

ValidIndex(g, index) == index >= 0 /\ index < Len(g.Layers)

\* remove / insert in a sequence at a 0-based index
RemoveAt(s, index) == SubSeq(s, 1, index) \o SubSeq(s, index + 2, Len(s))
InsertAt(s, index, e) == SubSeq(s, 1, index) \o <<e>> \o SubSeq(s, index + 1, Len(s))

NewFile(canvasWidth, canvasHeight, maxActions) ==
  [Layers |-> <<1, 2>>,
   CurrentLayer |-> 0,
   LayerName |-> <<"background", "hidden">>,
   LayerHidden |-> <<FALSE, FALSE>>,
   LayerPixelData |-> [l \in 1..2 |-> l],
   Maps |-> [r \in 1..2 |-> EmptyMap],
   History |-> <<>>,
   HistoryMaxActions |-> maxActions,
   historyOffset |-> 0,
   deletedLayers |-> <<>>,
   Animations |-> <<>>,
   CurrentAnimation |-> 0,
   DoingSelection |-> FALSE,
   Selection |-> EmptyMap,
   SelectionMoving |-> FALSE,
   SelectionBounds |-> <<0, 0, 0, 0>>,
   IsSelectionPasted |-> FALSE,
   CopiedSelection |-> EmptyMap,
   CopiedSelectionBounds |-> <<0, 0, 0, 0>>,
   LeftColor |-> Red,
   RightColor |-> Blue,
   HasDoneMouseUpLeft |-> TRUE,
   HasDoneMouseUpRight |-> TRUE,
   hasInitialFill |-> {},
   CanvasWidth |-> canvasWidth,
   CanvasHeight |-> canvasHeight,
   CanvasWidthResizePreview |-> canvasWidth,
   CanvasHeightResizePreview |-> canvasHeight,
   processed |-> <<>>,
   err |-> FALSE,
   panicked |-> FALSE]

SetCurrentLayer(g, index) == [g EXCEPT !.CurrentLayer = index]

\* the pixel map reference of the layer at a 0-based position
PixelDataAt(g, index) == g.LayerPixelData[g.Layers[index + 1]]

\* AppendHistory without the truncation past the offset
AppendHistoryKeepUndone(g, action) ==
  LET kept == g.History
  IN IF Len(kept) >= g.HistoryMaxActions
     THEN [g EXCEPT !.History = SubSeq(kept, Len(kept) - g.HistoryMaxActions + 2,
                                       g.HistoryMaxActions) \o <<action>>]
     ELSE [g EXCEPT !.History = Append(kept, action)]

\* AppendHistory that makes room by dropping the newest kept entry
AppendHistoryEvictNewest(g, action) ==
  LET kept == SubSeq(g.History, 1, Len(g.History) - g.historyOffset)
  IN IF Len(kept) >= g.HistoryMaxActions
     THEN [g EXCEPT !.History = SubSeq(kept, 1, g.HistoryMaxActions - 1)
                                  \o <<action>>,
                    !.historyOffset = 0]
     ELSE [g EXCEPT !.History = Append(kept, action), !.historyOffset = 0]

\* AppendHistory that truncates but leaves historyOffset as it was
AppendHistoryKeepOffset(g, action) ==
  LET kept == SubSeq(g.History, 1, Len(g.History) - g.historyOffset)
  IN IF Len(kept) >= g.HistoryMaxActions
     THEN [g EXCEPT !.History = SubSeq(kept, Len(kept) - g.HistoryMaxActions + 2,
                                       g.HistoryMaxActions) \o <<action>>]
     ELSE [g EXCEPT !.History = Append(kept, action)]

AppendHistory(g, action) ==
  LET kept == SubSeq(g.History, 1, Len(g.History) - g.historyOffset)
      low == Len(kept) - g.HistoryMaxActions + 1
  IN IF Len(kept) >= g.HistoryMaxActions
     THEN IF low > g.HistoryMaxActions
          THEN Panic(g)
          ELSE [g EXCEPT !.History = SubSeq(kept, low + 1, g.HistoryMaxActions)
                                       \o <<action>>,
                         !.historyOffset = 0]
     ELSE [g EXCEPT !.History = Append(kept, action), !.historyOffset = 0]

DrawPixel(g, x, y, color, saveToHistory) ==
  IF ~ValidIndex(g, g.CurrentLayer) THEN Panic(g)
  ELSE IF ~(saveToHistory /\ x >= 0 /\ y >= 0
            /\ x < g.CanvasWidth /\ y < g.CanvasHeight) THEN g
  ELSE
    LET ref == PixelDataAt(g, g.CurrentLayer)
        loc == <<x, y>>
        oldColor == IF loc \in DOMAIN g.Maps[ref] THEN g.Maps[ref][loc]
                    ELSE Transparent
        newColor == IF color # Transparent THEN BlendWithOpacity(oldColor, color)
                    ELSE color
        n == Len(g.History)
    IN IF oldColor # newColor /\ n = 0 THEN Panic(g)
       ELSE
         LET hist == IF oldColor # newColor /\ g.History[n].type = "HistoryPixel"
                     THEN [g.History EXCEPT ![n].PixelState =
                             Put(@, loc, [Prev |-> oldColor, Current |-> newColor])]
                     ELSE g.History
         IN [g EXCEPT !.History = hist, !.Maps[ref] = Put(@, loc, newColor)]


\* ------------------------------------------------------------ mouse gestures
\* the call joins the calls UIFileSystem.Update has made in this frame
Traced(g, call) == [g EXCEPT !.processed = Append(@, call)]

\* the pixel brush on MouseDown: one pixel of the button's colour at the cursor
PixelBrushMouseDown(g, x, y, color) == DrawPixel(g, x, y, color, TRUE)

\* the block of UIFileSystem.Update for the left button
UpdateLeft(g, down, x, y) ==
  IF g.panicked THEN g
  ELSE IF down
  THEN LET g1 == IF g.HasDoneMouseUpLeft
                 THEN Traced(AppendHistory(g, HistoryPixel(EmptyMap, g.CurrentLayer)),
                             "Left.AppendHistory")
                 ELSE g
           g2 == [g1 EXCEPT !.HasDoneMouseUpLeft = FALSE]
       IN IF g1.panicked THEN g1
          ELSE Traced(PixelBrushMouseDown(g2, x, y, g2.LeftColor), "Left.MouseDown")
  ELSE IF ~g.HasDoneMouseUpLeft
  THEN Traced([g EXCEPT !.HasDoneMouseUpLeft = TRUE], "Left.MouseUp")
  ELSE g

\* the block of UIFileSystem.Update for the right button
UpdateRight(g, down, x, y) ==
  IF g.panicked THEN g
  ELSE IF down
  THEN LET g1 == IF g.HasDoneMouseUpRight
                 THEN Traced(AppendHistory(g, HistoryPixel(EmptyMap, g.CurrentLayer)),
                             "Right.AppendHistory")
                 ELSE g
           g2 == [g1 EXCEPT !.HasDoneMouseUpRight = FALSE]
       IN IF g1.panicked THEN g1
          ELSE Traced(PixelBrushMouseDown(g2, x, y, g2.RightColor), "Right.MouseDown")
  ELSE IF ~g.HasDoneMouseUpRight
  THEN Traced([g EXCEPT !.HasDoneMouseUpRight = TRUE], "Right.MouseUp")
  ELSE g

\* one frame of UIFileSystem.Update: the cursor is at (x, y), each button is
\* down or up, and the user interface has the input or not; GetCurrentLayer
\* panics for a CurrentLayer that is no index of Layers
Update(g, left, right, uiHasControl, x, y) ==
  LET g0 == [g EXCEPT !.processed = <<>>]
  IN IF ~ValidIndex(g, g.CurrentLayer) THEN Panic(g0)
     ELSE IF uiHasControl THEN g0
     ELSE UpdateRight(UpdateLeft(g0, left, x, y), right, x, y)

\* File.ClearBackground: every coordinate of the canvas is set to the colour in
\* the current layer's pixel map
ClearBackground(g, color) ==
  IF ~ValidIndex(g, g.CurrentLayer) THEN Panic(g)
  ELSE LET ref == PixelDataAt(g, g.CurrentLayer)
           canvas == (0..(g.CanvasWidth - 1)) \X (0..(g.CanvasHeight - 1))
       IN [g EXCEPT !.Maps[ref] =
             [p \in (DOMAIN @) \cup canvas |-> IF p \in canvas THEN color ELSE @[p]]]

\* one frame of UIFileSystem.Draw, as far as it writes the document: the
\* current layer gets its initial fill if its flag is not set yet; the fill
\* colour of every layer is transparent (NewLayer is always called with
\* rl.Transparent and Open leaves the zero colour); the rest of Draw renders
\* textures
Draw(g) ==
  IF ~ValidIndex(g, g.CurrentLayer) THEN Panic(g)
  ELSE LET layer == g.Layers[g.CurrentLayer + 1]
       IN IF layer \notin g.hasInitialFill
          THEN LET g1 == ClearBackground(g, Transparent)
               IN [g1 EXCEPT !.hasInitialFill = @ \cup {layer}]
          ELSE g

\* --------------------------------------------------------------- animations
\* the name is "Anim n", kept as the number n
AddNewAnimation(g) ==
  [g EXCEPT !.Animations =
     Append(@, [Name |-> Len(g.Animations), FrameStart |-> 0, FrameEnd |-> 0,
                Timing |-> 5])]

SetCurrentAnimation(g, index) == [g EXCEPT !.CurrentAnimation = index]

\* f.Animations[:index] and f.Animations[index+1:] panic for an index below 0
\* and for index + 1 above len(f.Animations)
DeleteAnimation(g, index) ==
  IF index - 1 >= Len(g.Animations) THEN [g EXCEPT !.err = TRUE]
  ELSE IF index < 0 \/ index + 1 > Len(g.Animations) THEN Panic(g)
  ELSE LET removed == RemoveAt(g.Animations, index)
       IN [g EXCEPT !.Animations = removed,
                    !.CurrentAnimation = Len(removed) - 1,
                    !.err = FALSE]

\* f.Animations[index] panics for an index outside 0..len(f.Animations)-1
GetAnimation(g, index) ==
  IF index - 1 >= Len(g.Animations) THEN [g EXCEPT !.err = TRUE]
  ELSE IF index < 0 \/ index >= Len(g.Animations) THEN Panic(g)
  ELSE [g EXCEPT !.err = FALSE]

\* ---------------------------------------------------------------- selection
\* Go's integer division by 2 (the quotient is truncated toward zero)
Half(a) == IF a >= 0 THEN a \div 2 ELSE -((-a) \div 2)

InCanvas(g, loc) ==
  loc[1] >= 0 /\ loc[1] < g.CanvasWidth /\ loc[2] >= 0 /\ loc[2] < g.CanvasHeight

\* the selector tool on mouse up: the floating selection holds the entries the
\* current layer has inside the rectangle (x0, y0)..(x1, y1)
StartSelection(g, bounds) ==
  IF ~ValidIndex(g, g.CurrentLayer) THEN Panic(g)
  ELSE
    LET m == g.Maps[PixelDataAt(g, g.CurrentLayer)]
        rect == (bounds[1]..bounds[3]) \X (bounds[2]..bounds[4])
    IN [g EXCEPT !.Selection = [p \in (DOMAIN m) \cap rect |-> m[p]],
                 !.SelectionBounds = bounds,
                 !.DoingSelection = TRUE,
                 !.SelectionMoving = FALSE]

\* a loop that records the selected coordinates and leaves the layer alone
MoveSelectionCutRecordOnly(g) ==
  LET n == Len(g.History)
      m == g.Maps[PixelDataAt(g, g.CurrentLayer)]
      sel == DOMAIN g.Selection
  IN IF sel = {} \/ g.IsSelectionPasted THEN g
     ELSE IF n = 0 THEN Panic(g)
     ELSE IF g.History[n].type # "HistoryPixel" THEN g
     ELSE [g EXCEPT !.History[n].PixelState =
             [p \in (DOMAIN @) \cup sel |->
                IF p \in sel THEN [Prev |-> Get(m, p), Current |-> Transparent]
                ELSE @[p]]]

\* the loop of MoveSelection that runs when the selection starts to move: every
\* selected coordinate is recorded and cleared in the layer, unless pasted
MoveSelectionCut(g) ==
  LET n == Len(g.History)
      ref == PixelDataAt(g, g.CurrentLayer)
      m == g.Maps[ref]
      sel == DOMAIN g.Selection
  IN IF sel = {} \/ g.IsSelectionPasted THEN g
     ELSE IF n = 0 THEN Panic(g)
     ELSE
       LET hist == IF g.History[n].type = "HistoryPixel"
                   THEN [g.History EXCEPT ![n].PixelState =
                           [p \in (DOMAIN @) \cup sel |->
                              IF p \in sel
                              THEN [Prev |-> Get(m, p), Current |-> Transparent]
                              ELSE @[p]]]
                   ELSE g.History
       IN [g EXCEPT !.History = hist,
                    !.Maps[ref] = [p \in (DOMAIN m) \cup sel |->
                                     IF p \in sel THEN Transparent ELSE m[p]]]

MoveSelection(g, dx, dy) ==
  IF ~ValidIndex(g, g.CurrentLayer) THEN Panic(g)
  ELSE IF DOMAIN g.Selection = {} THEN g
  ELSE
    LET g1 == IF ~g.SelectionMoving
              THEN LET a == AppendHistory([g EXCEPT !.SelectionMoving = TRUE],
                                          HistoryPixel(EmptyMap, g.CurrentLayer))
                   IN IF a.panicked THEN a ELSE MoveSelectionCut(a)
              ELSE g
        b == g1.SelectionBounds
    IN IF g1.panicked THEN g1
       ELSE [g1 EXCEPT
               !.SelectionBounds = <<b[1] + dx, b[2] + dy, b[3] + dx, b[4] + dy>>,
               !.Selection = [q \in {<<p[1] + dx, p[2] + dy>> : p \in DOMAIN @} |->
                                @[<<q[1] - dx, q[2] - dy>>]]]

\* the loop of CommitSelection without the test of the canvas bounds
RECURSIVE CommitLoopUnclipped(_, _)
CommitLoopUnclipped(g, todo) ==
  IF todo = {} \/ g.panicked THEN g
  ELSE
    LET loc == CHOOSE p \in todo : TRUE
        rest == todo \ {loc}
        color == g.Selection[loc]
        n == Len(g.History)
        ref == PixelDataAt(g, g.CurrentLayer)
        m == g.Maps[ref]
    IN IF n = 0 THEN Panic(g)
       ELSE IF g.History[n].type # "HistoryPixel" THEN CommitLoopUnclipped(g, rest)
       ELSE
         LET ps == g.History[n].PixelState
             currentColor == IF loc \in DOMAIN ps
                             THEN BlendWithOpacity(ps[loc].Current, color)
                             ELSE BlendWithOpacity(Get(m, loc), color)
             delta == IF loc \in DOMAIN ps
                      THEN [ps[loc] EXCEPT !.Current = currentColor]
                      ELSE [Prev |-> Get(m, loc), Current |-> currentColor]
         IN CommitLoopUnclipped(
              [g EXCEPT !.History[n].PixelState = Put(ps, loc, delta),
                        !.Maps[ref] = Put(m, loc, currentColor)],
              rest)

\* a loop that takes the previous colour from the layer at every write
RECURSIVE CommitLoopFreshPrev(_, _)
CommitLoopFreshPrev(g, todo) ==
  IF todo = {} \/ g.panicked THEN g
  ELSE
    LET loc == CHOOSE p \in todo : TRUE
        rest == todo \ {loc}
        color == g.Selection[loc]
        n == Len(g.History)
        ref == PixelDataAt(g, g.CurrentLayer)
        m == g.Maps[ref]
    IN IF ~InCanvas(g, loc) THEN CommitLoopFreshPrev(g, rest)
       ELSE IF n = 0 THEN Panic(g)
       ELSE IF g.History[n].type # "HistoryPixel" THEN CommitLoopFreshPrev(g, rest)
       ELSE
         LET ps == g.History[n].PixelState
             currentColor == IF loc \in DOMAIN ps
                             THEN BlendWithOpacity(ps[loc].Current, color)
                             ELSE BlendWithOpacity(Get(m, loc), color)
             delta == [Prev |-> Get(m, loc), Current |-> currentColor]
         IN CommitLoopFreshPrev(
              [g EXCEPT !.History[n].PixelState = Put(ps, loc, delta),
                        !.Maps[ref] = Put(m, loc, currentColor)],
              rest)

\* the loop of CommitSelection over the selected coordinates `todo`: each one
\* reads the newest entry of History and writes the entry and the layer
RECURSIVE CommitLoop(_, _)
CommitLoop(g, todo) ==
  IF todo = {} \/ g.panicked THEN g
  ELSE
    LET loc == CHOOSE p \in todo : TRUE
        rest == todo \ {loc}
        color == g.Selection[loc]
        n == Len(g.History)
        ref == PixelDataAt(g, g.CurrentLayer)
        m == g.Maps[ref]
    IN IF ~InCanvas(g, loc) THEN CommitLoop(g, rest)
       ELSE IF n = 0 THEN Panic(g)
       ELSE IF g.History[n].type # "HistoryPixel" THEN CommitLoop(g, rest)
       ELSE
         LET ps == g.History[n].PixelState
             currentColor == IF loc \in DOMAIN ps
                             THEN BlendWithOpacity(ps[loc].Current, color)
                             ELSE BlendWithOpacity(Get(m, loc), color)
             delta == IF loc \in DOMAIN ps
                      THEN [ps[loc] EXCEPT !.Current = currentColor]
                      ELSE [Prev |-> Get(m, loc), Current |-> currentColor]
         IN CommitLoop([g EXCEPT !.History[n].PixelState = Put(ps, loc, delta),
                                 !.Maps[ref] = Put(m, loc, currentColor)],
                       rest)

CommitSelection(g) ==
  LET g1 == [g EXCEPT !.IsSelectionPasted = FALSE, !.DoingSelection = FALSE]
      g2 == IF g1.SelectionMoving
            THEN IF ~ValidIndex(g1, g1.CurrentLayer) THEN Panic(g1)
                 ELSE CommitLoop([g1 EXCEPT !.SelectionMoving = FALSE],
                                 DOMAIN g1.Selection)
            ELSE g1
  IN IF g2.panicked THEN g2 ELSE [g2 EXCEPT !.Selection = EmptyMap]

\* DeleteSelection: the selection starts to move where it is, which cuts it
\* from the layer, and is emptied
DeleteSelection(g) ==
  LET g1 == MoveSelection(g, 0, 0)
  IN IF g1.panicked THEN g1 ELSE [g1 EXCEPT !.Selection = EmptyMap]

\* a cancel that also drops the newest entry of History
CancelSelectionDropsEntry(g) ==
  [g EXCEPT !.Selection = EmptyMap, !.SelectionMoving = FALSE,
            !.DoingSelection = FALSE,
            !.History = IF Len(@) > 0 THEN SubSeq(@, 1, Len(@) - 1) ELSE @]

CancelSelection(g) ==
  [g EXCEPT !.Selection = EmptyMap, !.SelectionMoving = FALSE,
            !.DoingSelection = FALSE]

\* Copy: the clipboard takes the selection and its bounds or, with nothing
\* selected, the current layer's pixel map and the bounds of the canvas
Copy(g) ==
  IF DOMAIN g.Selection # {}
  THEN [g EXCEPT !.CopiedSelection = g.Selection,
                 !.CopiedSelectionBounds = g.SelectionBounds]
  ELSE IF ~ValidIndex(g, g.CurrentLayer) THEN Panic(g)
  ELSE [g EXCEPT !.CopiedSelection = g.Maps[PixelDataAt(g, g.CurrentLayer)],
                 !.CopiedSelectionBounds =
                    <<0, 0, g.CanvasWidth - 1, g.CanvasHeight - 1>>]

Paste(g) ==
  LET g1 == CommitSelection(g)
      g2 == IF g1.panicked THEN g1
            ELSE MoveSelection([g1 EXCEPT !.SelectionMoving = FALSE,
                                          !.IsSelectionPasted = TRUE], 0, 0)
  IN IF g2.panicked THEN g2
     ELSE [g2 EXCEPT !.DoingSelection = TRUE,
                     !.Selection = g2.CopiedSelection,
                     !.SelectionBounds = g2.CopiedSelectionBounds]

\* the coordinates lpos the loop of FlipHorizontal visits, and their mirrors
FlipLeft(sx, sy, mx, my) == (sx..(Half(mx) - 1)) \X (sy..(my - 1))
MirrorX(mx, p) == <<mx - p[1] - 1, p[2]>>

\* a swap that writes m[lpos] before it reads it: both sides end with rcur
SwapHorizontalOverwrite(m, left, mx) ==
  LET right == {MirrorX(mx, p) : p \in left}
  IN [p \in (DOMAIN m) \cup left \cup right |->
        IF p \in left THEN Get(m, MirrorX(mx, p)) ELSE Get(m, p)]

\* a map after the swap of m[lpos] and m[rpos] for every visited lpos; a key
\* that was absent is read as the zero value and is present afterwards
SwapHorizontal(m, left, mx) ==
  LET right == {MirrorX(mx, p) : p \in left}
  IN [p \in (DOMAIN m) \cup left \cup right |->
        IF p \in left \cup right THEN Get(m, MirrorX(mx, p)) ELSE m[p]]

\* the deltas FlipHorizontal records: both sides of every pair
FlipPixelState(m, left, mx) ==
  LET right == {MirrorX(mx, p) : p \in left}
  IN [p \in left \cup right |->
        [Prev |-> Get(m, p), Current |-> Get(m, MirrorX(mx, p))]]

FlipHorizontal(g) ==
  LET b == g.SelectionBounds
      sx == IF g.DoingSelection THEN b[1] ELSE 0
      sy == IF g.DoingSelection THEN b[2] ELSE 0
      mx == IF g.DoingSelection THEN (b[1] + b[3]) + 1 ELSE g.CanvasWidth
      my == IF g.DoingSelection THEN b[4] + 1 ELSE g.CanvasHeight
      left == FlipLeft(sx, sy, mx, my)
      g1 == IF g.DoingSelection THEN g
            ELSE AppendHistory(g, HistoryPixel(EmptyMap, g.CurrentLayer))
  IN IF g1.panicked THEN g1
     ELSE IF ~ValidIndex(g1, g1.CurrentLayer) THEN Panic(g1)
     ELSE IF g1.DoingSelection
     THEN LET g2 == [g1 EXCEPT !.Selection = SwapHorizontal(@, left, mx)]
          IN IF ~g1.SelectionMoving THEN MoveSelection(g2, 0, 0) ELSE g2
     ELSE LET ref == PixelDataAt(g1, g1.CurrentLayer)
              m == g1.Maps[ref]
              n == Len(g1.History)
          IN [g1 EXCEPT !.History[n].PixelState = FlipPixelState(m, left, mx),
                        !.Maps[ref] = SwapHorizontal(m, left, mx)]

\* the coordinates lpos the loop of FlipVertical visits, and their mirrors
FlipTop(sx, sy, mx, my) == (sx..(mx - 1)) \X (sy..(Half(my) - 1))
MirrorY(my, p) == <<p[1], my - p[2] - 1>>

\* a map after the swap of m[lpos] and m[rpos] for every lpos FlipVertical
\* visits
SwapVertical(m, top, my) ==
  LET bottom == {MirrorY(my, p) : p \in top}
  IN [p \in (DOMAIN m) \cup top \cup bottom |->
        IF p \in top \cup bottom THEN Get(m, MirrorY(my, p)) ELSE m[p]]

\* deltas for the upper side of every pair only
FlipPixelStateVerticalUpperOnly(m, top, my) ==
  [p \in top |-> [Prev |-> Get(m, p), Current |-> Get(m, MirrorY(my, p))]]

\* the deltas FlipVertical records: both sides of every pair
FlipPixelStateVertical(m, top, my) ==
  LET bottom == {MirrorY(my, p) : p \in top}
  IN [p \in top \cup bottom |->
        [Prev |-> Get(m, p), Current |-> Get(m, MirrorY(my, p))]]

\* FlipVertical that appends its entry with a selection active too
FlipVerticalAlwaysRecords(g) ==
  LET b == g.SelectionBounds
      sx == IF g.DoingSelection THEN b[1] ELSE 0
      sy == IF g.DoingSelection THEN b[2] ELSE 0
      mx == IF g.DoingSelection THEN b[3] + 1 ELSE g.CanvasWidth
      my == IF g.DoingSelection THEN (b[2] + b[4]) + 1 ELSE g.CanvasHeight
      top == FlipTop(sx, sy, mx, my)
      g1 == AppendHistory(g, HistoryPixel(EmptyMap, g.CurrentLayer))
  IN IF g1.panicked THEN g1
     ELSE IF ~ValidIndex(g1, g1.CurrentLayer) THEN Panic(g1)
     ELSE IF g1.DoingSelection
     THEN LET g2 == [g1 EXCEPT !.Selection = SwapVertical(@, top, my)]
          IN IF ~g1.SelectionMoving THEN MoveSelection(g2, 0, 0) ELSE g2
     ELSE LET ref == PixelDataAt(g1, g1.CurrentLayer)
              m == g1.Maps[ref]
              n == Len(g1.History)
          IN [g1 EXCEPT !.History[n].PixelState = FlipPixelStateVertical(m, top, my),
                        !.Maps[ref] = SwapVertical(m, top, my)]

FlipVertical(g) ==
  LET b == g.SelectionBounds
      sx == IF g.DoingSelection THEN b[1] ELSE 0
      sy == IF g.DoingSelection THEN b[2] ELSE 0
      mx == IF g.DoingSelection THEN b[3] + 1 ELSE g.CanvasWidth
      my == IF g.DoingSelection THEN (b[2] + b[4]) + 1 ELSE g.CanvasHeight
      top == FlipTop(sx, sy, mx, my)
      g1 == IF g.DoingSelection THEN g
            ELSE AppendHistory(g, HistoryPixel(EmptyMap, g.CurrentLayer))
  IN IF g1.panicked THEN g1
     ELSE IF ~ValidIndex(g1, g1.CurrentLayer) THEN Panic(g1)
     ELSE IF g1.DoingSelection
     THEN LET g2 == [g1 EXCEPT !.Selection = SwapVertical(@, top, my)]
          IN IF ~g1.SelectionMoving THEN MoveSelection(g2, 0, 0) ELSE g2
     ELSE LET ref == PixelDataAt(g1, g1.CurrentLayer)
              m == g1.Maps[ref]
              n == Len(g1.History)
          IN [g1 EXCEPT !.History[n].PixelState = FlipPixelStateVertical(m, top, my),
                        !.Maps[ref] = SwapVertical(m, top, my)]

\* ------------------------------------------------------------------- layers
\* DeleteLayer that pushes the layer on deletedLayers ahead of the test
DeleteLayerPushFirst(g, index, appendHistory) ==
  IF ~ValidIndex(g, index) THEN Panic(g)
  ELSE
    LET g0 == [g EXCEPT !.deletedLayers = Append(@, g.Layers[index + 1])]
    IN IF Len(g.Layers) > 2
       THEN LET g1 == [g0 EXCEPT !.Layers = RemoveAt(@, index), !.err = FALSE]
                g2 == IF appendHistory
                      THEN AppendHistory(g1, HistoryLayer("Delete", index))
                      ELSE g1
            IN IF g2.CurrentLayer > Len(g2.Layers) - 2
               THEN SetCurrentLayer(g2, Len(g2.Layers) - 2)
               ELSE g2
       ELSE [g0 EXCEPT !.err = TRUE]

\* DeleteLayer that only refuses to delete the last layer of all
DeleteLayerKeepsOne(g, index, appendHistory) ==
  IF Len(g.Layers) > 1
  THEN IF ~ValidIndex(g, index) THEN Panic(g)
       ELSE
         LET g1 == [g EXCEPT !.deletedLayers = Append(@, g.Layers[index + 1]),
                             !.Layers = RemoveAt(@, index),
                             !.err = FALSE]
             g2 == IF appendHistory
                   THEN AppendHistory(g1, HistoryLayer("Delete", index))
                   ELSE g1
         IN IF g2.CurrentLayer > Len(g2.Layers) - 2
            THEN SetCurrentLayer(g2, Len(g2.Layers) - 2)
            ELSE g2
  ELSE [g EXCEPT !.err = TRUE]

\* DeleteLayer that leaves CurrentLayer as it is
DeleteLayerKeepsCurrent(g, index, appendHistory) ==
  IF Len(g.Layers) > 2
  THEN IF ~ValidIndex(g, index) THEN Panic(g)
       ELSE
         LET g1 == [g EXCEPT !.deletedLayers = Append(@, g.Layers[index + 1]),
                             !.Layers = RemoveAt(@, index),
                             !.err = FALSE]
         IN IF appendHistory
            THEN AppendHistory(g1, HistoryLayer("Delete", index))
            ELSE g1
  ELSE [g EXCEPT !.err = TRUE]

DeleteLayer(g, index, appendHistory) ==
  IF Len(g.Layers) > 2
  THEN IF ~ValidIndex(g, index) THEN Panic(g)
       ELSE
         LET g1 == [g EXCEPT !.deletedLayers = Append(@, g.Layers[index + 1]),
                             !.Layers = RemoveAt(@, index),
                             !.err = FALSE]
             g2 == IF appendHistory
                   THEN AppendHistory(g1, HistoryLayer("Delete", index))
                   ELSE g1
         IN IF g2.CurrentLayer > Len(g2.Layers) - 2
            THEN SetCurrentLayer(g2, Len(g2.Layers) - 2)
            ELSE g2
  ELSE [g EXCEPT !.err = TRUE]

\* RestoreLayer that puts the layer back on top of the addressable layers
RestoreLayerOnTop(g, index) ==
  IF Len(g.deletedLayers) = 0 THEN [g EXCEPT !.err = TRUE]
  ELSE IF index < 0 \/ index > Len(g.Layers) THEN Panic(g)
  ELSE [g EXCEPT !.Layers = InsertAt(@, Len(@) - 1, g.deletedLayers[Len(g.deletedLayers)]),
                 !.deletedLayers = SubSeq(@, 1, Len(@) - 1),
                 !.err = FALSE]

RestoreLayer(g, index) ==
  IF Len(g.deletedLayers) = 0 THEN [g EXCEPT !.err = TRUE]
  ELSE IF index < 0 \/ index > Len(g.Layers) THEN Panic(g)
  ELSE [g EXCEPT !.Layers = InsertAt(@, index, g.deletedLayers[Len(g.deletedLayers)]),
                 !.deletedLayers = SubSeq(@, 1, Len(@) - 1),
                 !.err = FALSE]

\* the destination map after the loop of MergeLayerDown
MergedPixels(to, from) ==
  [p \in (DOMAIN to) \cup (DOMAIN from) |->
     IF p \in DOMAIN from THEN BlendWithOpacity(Get(to, p), from[p]) ELSE to[p]]

\* a loop that reads hist.Prev after the write to the destination
MergedPixelStateAfterWrite(to, from) ==
  [p \in DOMAIN from |->
     [Prev |-> BlendWithOpacity(Get(to, p), from[p]),
      Current |-> BlendWithOpacity(Get(to, p), from[p])]]

\* the PixelState the loop of MergeLayerDown records
MergedPixelState(to, from) ==
  [p \in DOMAIN from |->
     [Prev |-> Get(to, p), Current |-> BlendWithOpacity(Get(to, p), from[p])]]

MergeLayerDown(g, index) ==
  IF Len(g.Layers) <= 2 THEN [g EXCEPT !.err = TRUE]
  ELSE IF index = 0 THEN [g EXCEPT !.err = TRUE]
  ELSE IF ~ValidIndex(g, index) THEN Panic(g)
  ELSE
    LET fromRef == PixelDataAt(g, index)
        toRef == PixelDataAt(g, index - 1)
        from == g.Maps[fromRef]
        to == g.Maps[toRef]
        historyPixel == HistoryPixel(MergedPixelState(to, from), index - 1)
        g1 == [g EXCEPT !.Maps[toRef] = MergedPixels(to, from)]
        g2 == DeleteLayer(g1, index, FALSE)
        comp == CompoundHistory(<<historyPixel, HistoryLayer("Delete", index)>>)
    IN IF g2.err \/ g2.panicked THEN g2
       ELSE [AppendHistory(g2, comp) EXCEPT !.err = FALSE]

\* NewLayer returns a layer not seen before, holding a new empty map
AddNewLayer(g) ==
  LET newLayer == Len(g.LayerPixelData) + 1
      n == Len(g.Layers)
      g1 == [g EXCEPT !.LayerName = Append(@, "new layer"),
                      !.LayerHidden = Append(@, FALSE),
                      !.LayerPixelData = Append(@, newLayer),
                      !.Maps = Append(@, EmptyMap),
                      !.Layers = SubSeq(@, 1, n - 1) \o <<newLayer, g.Layers[n]>>]
      g2 == SetCurrentLayer(g1, Len(g1.Layers) - 2)
  IN AppendHistory(g2, HistoryLayer("Create", g2.CurrentLayer))

MoveLayerUp(g, index, appendHistory) ==
  IF index < Len(g.Layers) - 2
  THEN IF index < 0 THEN Panic(g)
       ELSE
         LET toMove == g.Layers[index + 1]
             removed == RemoveAt(g.Layers, index)
             g1 == [g EXCEPT !.Layers = SubSeq(removed, 1, index)
                                 \o <<removed[index + 1], toMove>>
                                 \o SubSeq(removed, index + 2, Len(removed)),
                             !.err = FALSE]
         IN IF appendHistory
            THEN AppendHistory(g1, HistoryLayer("MoveUp", index))
            ELSE g1
  ELSE [g EXCEPT !.err = TRUE]

MoveLayerDown(g, index, appendHistory) ==
  IF index > 0
  THEN IF index >= Len(g.Layers) THEN Panic(g)
       ELSE
         LET toMove == g.Layers[index + 1]
             removed == RemoveAt(g.Layers, index)
             g1 == [g EXCEPT !.Layers =
                       IF index - 1 = 0
                       THEN <<toMove>> \o removed
                       ELSE SubSeq(removed, 1, index - 1) \o <<toMove>>
                            \o SubSeq(removed, index, Len(removed)),
                     !.err = FALSE]
         IN IF appendHistory
            THEN AppendHistory(g1, HistoryLayer("MoveDown", index))
            ELSE g1
  ELSE [g EXCEPT !.err = TRUE]

\* ------------------------------------------------------------------- resize
\* Layer.Resize allocates a new Canvas and draws the pixels on it; it neither
\* reads nor writes anything else, and l.PixelData is left as it is.
LayerResize(g, layer, width, height, direction) == g

\* ResizeCanvas with the canvas size assigned before the call of AppendHistory
ResizeCanvasSizeFirst(g, width, height, direction) ==
  LET refs == [i \in 1..Len(g.Layers) |-> g.LayerPixelData[g.Layers[i]]]
      g1 == AppendHistory(g, HistoryResize(refs, refs, width, height, width, height))
  IN IF g1.panicked THEN g1
     ELSE [g1 EXCEPT !.CanvasWidth = width, !.CanvasHeight = height]

\* ResizeCanvas: the loop appends the layer's map reference before and after
\* Layer.Resize, so both slices hold the references the layers hold.
ResizeCanvas(g, width, height, direction) ==
  LET refs == [i \in 1..Len(g.Layers) |-> g.LayerPixelData[g.Layers[i]]]
      g1 == AppendHistory(g, HistoryResize(refs, refs, g.CanvasWidth,
                                           g.CanvasHeight, width, height))
  IN IF g1.panicked THEN g1
     ELSE [g1 EXCEPT !.CanvasWidth = width, !.CanvasHeight = height]


\* ---------------------------------------------------------------- undo/redo
\* the order in which the CompoundHistory case visits typed.Actions
\* (1-based positions): Undo counts i up from 0, Redo counts i down
UndoOrder(n) == [k \in 1..n |-> k]
RedoOrder(n) == [k \in 1..n |-> n + 1 - k]

\* for pos, psd := range typed.PixelState { layer.PixelData[pos] = ... }
WriteBack(m, pixelState, which) ==
  [p \in (DOMAIN m) \cup (DOMAIN pixelState) |->
     IF p \in DOMAIN pixelState
     THEN (IF which = "Prev" THEN pixelState[p].Prev ELSE pixelState[p].Current)
     ELSE m[p]]

\* for i, layer := range snapshot { f.Layers[i].PixelData = layer; Resize }
RECURSIVE SetLayerStates(_, _, _)
SetLayerStates(g, snapshot, i) ==
  IF i > Len(snapshot) THEN g
  ELSE IF i > Len(g.Layers) THEN Panic(g)
  ELSE SetLayerStates([g EXCEPT !.LayerPixelData[g.Layers[i]] = snapshot[i]],
                      snapshot, i + 1)

\* the HistoryPixel case of Undo without the call that sets CurrentLayer back
UndoHistoryPixelStaysOnLayer(g, typed) ==
  LET g1 == IF g.DoingSelection
            THEN [g EXCEPT !.Selection = EmptyMap, !.DoingSelection = FALSE,
                           !.SelectionMoving = FALSE]
            ELSE g
  IN IF ~ValidIndex(g1, typed.LayerIndex) THEN Panic(g1)
     ELSE LET ref == PixelDataAt(g1, typed.LayerIndex)
          IN [g1 EXCEPT !.Maps[ref] = WriteBack(@, typed.PixelState, "Prev"),
                        !.CurrentLayer = typed.LayerIndex]

UndoHistoryPixel(g, typed) ==
  LET g1 == IF g.DoingSelection
            THEN [g EXCEPT !.Selection = EmptyMap, !.DoingSelection = FALSE,
                           !.SelectionMoving = FALSE]
            ELSE g
  IN IF ~ValidIndex(g1, typed.LayerIndex) THEN Panic(g1)
     ELSE LET ref == PixelDataAt(g1, typed.LayerIndex)
          IN [g1 EXCEPT !.Maps[ref] = WriteBack(@, typed.PixelState, "Prev")]

\* the HistoryLayer case of Undo that calls the other move with the index of
\* the entry
UndoHistoryLayerOtherMove(g, typed) ==
  CASE typed.HistoryLayerAction = "Delete" -> RestoreLayer(g, typed.LayerIndex)
    [] typed.HistoryLayerAction = "Create" -> DeleteLayer(g, typed.LayerIndex, FALSE)
    [] typed.HistoryLayerAction = "MoveUp" -> MoveLayerDown(g, typed.LayerIndex, FALSE)
    [] typed.HistoryLayerAction = "MoveDown" -> MoveLayerUp(g, typed.LayerIndex, FALSE)
    [] OTHER -> g

\* the HistoryLayer case of Undo with the layer helpers left to record
UndoHistoryLayerRecording(g, typed) ==
  CASE typed.HistoryLayerAction = "Delete" -> RestoreLayer(g, typed.LayerIndex)
    [] typed.HistoryLayerAction = "Create" -> DeleteLayer(g, typed.LayerIndex, TRUE)
    [] typed.HistoryLayerAction = "MoveUp" -> MoveLayerUp(g, typed.LayerIndex, TRUE)
    [] typed.HistoryLayerAction = "MoveDown" -> MoveLayerDown(g, typed.LayerIndex, TRUE)
    [] OTHER -> g

UndoHistoryLayer(g, typed) ==
  CASE typed.HistoryLayerAction = "Delete" -> RestoreLayer(g, typed.LayerIndex)
    [] typed.HistoryLayerAction = "Create" -> DeleteLayer(g, typed.LayerIndex, FALSE)
    [] typed.HistoryLayerAction = "MoveUp" -> MoveLayerUp(g, typed.LayerIndex, FALSE)
    [] typed.HistoryLayerAction = "MoveDown" -> MoveLayerDown(g, typed.LayerIndex, FALSE)
    [] OTHER -> g

UndoHistoryResize(g, typed) ==
  SetLayerStates([g EXCEPT !.CanvasWidthResizePreview = typed.PrevWidth,
                           !.CanvasHeightResizePreview = typed.PrevHeight,
                           !.CanvasWidth = typed.PrevWidth,
                           !.CanvasHeight = typed.PrevHeight],
                 typed.PrevLayerState, 1)

RECURSIVE UndoProcess(_, _)
RECURSIVE UndoProcessAll(_, _, _, _)
UndoProcessAll(g, actions, order, k) ==
  IF k > Len(order) \/ g.panicked THEN g
  ELSE UndoProcessAll(UndoProcess(g, actions[order[k]]), actions, order, k + 1)

\* the closure `process` of Undo; `processed` lists the items it applied
UndoProcess(g, historyItem) ==
  LET seen == [g EXCEPT !.processed = Append(@, historyItem.type)]
  IN CASE historyItem.type = "CompoundHistory" ->
            UndoProcessAll(g, historyItem.Actions,
                           UndoOrder(Len(historyItem.Actions)), 1)
       [] historyItem.type = "HistoryPixel" -> UndoHistoryPixel(seen, historyItem)
       [] historyItem.type = "HistoryLayer" -> UndoHistoryLayer(seen, historyItem)
       [] historyItem.type = "HistoryResize" -> UndoHistoryResize(seen, historyItem)
       [] OTHER -> g

\* Undo with the increment of historyOffset ahead of the guard
UndoCountsPastOldest(g) ==
  IF g.historyOffset < Len(g.History)
  THEN LET g1 == [g EXCEPT !.historyOffset = @ + 1, !.processed = <<>>]
           index == Len(g1.History) - g1.historyOffset
       IN [UndoProcess(g1, g1.History[index + 1]) EXCEPT !.err = FALSE]
  ELSE [g EXCEPT !.historyOffset = @ + 1]

Undo(g) ==
  IF g.historyOffset < Len(g.History)
  THEN LET g1 == [g EXCEPT !.historyOffset = @ + 1, !.processed = <<>>]
           index == Len(g1.History) - g1.historyOffset
       IN [UndoProcess(g1, g1.History[index + 1]) EXCEPT !.err = FALSE]
  ELSE g

RedoHistoryPixel(g, typed) ==
  IF ~ValidIndex(g, typed.LayerIndex) THEN Panic(g)
  ELSE LET ref == PixelDataAt(g, typed.LayerIndex)
       IN [g EXCEPT !.Maps[ref] = WriteBack(@, typed.PixelState, "Current")]

RedoHistoryLayer(g, typed) ==
  CASE typed.HistoryLayerAction = "Delete" -> DeleteLayer(g, typed.LayerIndex, FALSE)
    [] typed.HistoryLayerAction = "Create" -> RestoreLayer(g, typed.LayerIndex)
    [] typed.HistoryLayerAction = "MoveUp" -> MoveLayerUp(g, typed.LayerIndex, FALSE)
    [] typed.HistoryLayerAction = "MoveDown" -> MoveLayerDown(g, typed.LayerIndex, FALSE)
    [] OTHER -> g

RedoHistoryResize(g, typed) ==
  SetLayerStates([g EXCEPT !.CanvasWidthResizePreview = typed.CurrentWidth,
                           !.CanvasHeightResizePreview = typed.CurrentHeight,
                           !.CanvasWidth = typed.CurrentWidth,
                           !.CanvasHeight = typed.CurrentHeight],
                 typed.CurrentLayerState, 1)

RECURSIVE RedoProcess(_, _)
RECURSIVE RedoProcessAll(_, _, _, _)
RedoProcessAll(g, actions, order, k) ==
  IF k > Len(order) \/ g.panicked THEN g
  ELSE RedoProcessAll(RedoProcess(g, actions[order[k]]), actions, order, k + 1)

\* the closure `process` of Redo
RedoProcess(g, historyItem) ==
  LET seen == [g EXCEPT !.processed = Append(@, historyItem.type)]
  IN CASE historyItem.type = "CompoundHistory" ->
            RedoProcessAll(g, historyItem.Actions,
                           RedoOrder(Len(historyItem.Actions)), 1)
       [] historyItem.type = "HistoryPixel" -> RedoHistoryPixel(seen, historyItem)
       [] historyItem.type = "HistoryLayer" -> RedoHistoryLayer(seen, historyItem)
       [] historyItem.type = "HistoryResize" -> RedoHistoryResize(seen, historyItem)
       [] OTHER -> g

Redo(g) ==
  IF g.historyOffset > 0
  THEN LET index == Len(g.History) - g.historyOffset
           g1 == [g EXCEPT !.historyOffset = @ - 1, !.processed = <<>>]
       IN [RedoProcess(g1, g1.History[index + 1]) EXCEPT !.err = FALSE]
  ELSE g


\* --------------------------------------------------------------------- menu
\* the drop-down buttons in the order the delayed hide visits them, and all
\* buttons that get the two hover handlers
DropDown == <<"save", "export", "open", "resize">>
DropDownButtons == {DropDown[k] : k \in 1..Len(DropDown)}
MenuButtons == DropDownButtons \cup {"file"}

\* NewMenuUI: the drop-down buttons are hidden, nothing is hovered and no
\* delayed hide is pending; `over` is the set of buttons the pointer is over
NewMenuUI ==
  [hoveredButtons |-> <<>>,
   shown |-> [b \in DropDownButtons |-> FALSE],
   over |-> {},
   hides |-> <<>>]

\* hoverable.OnMouseEnter
OnMouseEnter(m, entity) ==
  LET found == \E k \in 1..Len(m.hoveredButtons) : m.hoveredButtons[k] = entity
      hovered == IF found THEN m.hoveredButtons ELSE Append(m.hoveredButtons, entity)
  IN [m EXCEPT !.hoveredButtons = hovered,
               !.shown = IF Len(hovered) > 0
                         THEN [b \in DropDownButtons |-> TRUE] ELSE @]

\* hoverable.OnMouseLeave: the entity leaves hoveredButtons and a goroutine
\* starts that sleeps before it looks at hoveredButtons
OnMouseLeave(m, entity) ==
  [m EXCEPT !.hoveredButtons = SelectSeq(@, LAMBDA e : e # entity),
            !.hides = Append(@, [pc |-> "sleep", k |-> 0])]

\* the goroutine after time.Sleep: it reads len(hoveredButtons), with no
\* synchronisation with the handlers, and goes on to hide the drop-down
\* buttons if it read 0
HideAwake(m, i) ==
  [m EXCEPT !.hides[i] = IF Len(m.hoveredButtons) = 0
                         THEN [pc |-> "hide", k |-> 1]
                         ELSE [pc |-> "done", k |-> 0]]

\* the goroutine's next call of Hide
HideNext(m, i) ==
  LET k == m.hides[i].k
  IN [m EXCEPT !.shown[DropDown[k]] = FALSE,
               !.hides[i] = IF k = Len(DropDown) THEN [pc |-> "done", k |-> 0]
                            ELSE [pc |-> "hide", k |-> k + 1]]

\* -------------------------------------------------------------- observation
\* Written by no method and read by none:
\*   last, prev  the two most recent calls: the operation, its index argument,
\*               the error it returned, the history items the closure `process`
\*               applied (in order), and the historyOffset and the length of
\*               History it started from;
\*   snaps       for every entry of History, the document as it was just
\*               before the operation that appended the entry;
\*   run         the operations that appended the newest entries of History,
\*               with no Undo, Redo or other call since the first of them
\*               (DrawPixel inside a gesture excepted);
\*   watch       which of these a specification keeps (fixed by its Init);
\*               with "flips", run is the calls since the first of two
\*               FlipHorizontal calls in a row and snaps holds the File as it
\*               was before that first call; with "moves", the same for the
\*               MoveSelection that set a selection moving.
Tag(op, index) == [op |-> op, index |-> index]

NoCall ==
  [op |-> "none", index |-> 0, err |-> FALSE, processed |-> <<>>, undone |-> 0,
   len |-> 0]

Call(tag, before, g) ==
  [op |-> tag.op, index |-> tag.index, err |-> g.err, processed |-> g.processed,
   undone |-> before.historyOffset, len |-> Len(before.History)]

\* the return value and the closure's trace do not outlive the call
Forget(g) == [g EXCEPT !.err = FALSE, !.processed = <<>>]

AppendingOps ==
  {"AppendHistoryPixel", "AddNewLayer", "DeleteLayer", "MergeLayerDown",
   "MoveLayerUp", "MoveLayerDown", "ResizeCanvas"}

\* the call appended an entry to History
Appended(c) == c.op \in AppendingOps /\ ~c.err

\* the colours of a pixel map, an absent coordinate read as transparent
ColorsOf(m) == [p \in Coords |-> IF p \in DOMAIN m THEN m[p] ELSE Transparent]

\* the colours of the layer at each position of Layers
LayerColors(g) ==
  [i \in 1..Len(g.Layers) |-> ColorsOf(g.Maps[g.LayerPixelData[g.Layers[i]]])]

\* what a snapshot keeps of the document
View(g) ==
  [Layers |-> g.Layers, Colors |-> LayerColors(g),
   PixelData |-> [i \in 1..Len(g.Layers) |-> g.Maps[g.LayerPixelData[g.Layers[i]]]],
   CanvasWidth |-> g.CanvasWidth, CanvasHeight |-> g.CanvasHeight]

LastN(s, n) == SubSeq(s, Len(s) - n + 1, Len(s))

\* the calls since the first of two FlipHorizontal calls in a row, up to the
\* CommitSelection that follows them
FlipRun(op) ==
  IF op = "FlipHorizontal"
  THEN (IF run = <<"FlipHorizontal">> THEN <<op, op>> ELSE <<op>>)
  ELSE IF op = "CommitSelection" /\ run = <<"FlipHorizontal", "FlipHorizontal">>
  THEN Append(run, op)
  ELSE <<>>

\* the calls since the MoveSelection that set a selection moving: that call,
\* once more if more MoveSelection calls followed it, and the CommitSelection
\* after them
MoveRun(op) ==
  IF op = "MoveSelection"
  THEN (IF ~f.SelectionMoving /\ DOMAIN f.Selection # {} THEN <<op>>
        ELSE IF run # <<>> /\ run[Len(run)] = op THEN <<op, op>>
        ELSE <<>>)
  ELSE IF op = "CommitSelection" /\ run # <<>> /\ run[Len(run)] = "MoveSelection"
  THEN Append(run, op)
  ELSE <<>>

Observe(tag, g) ==
  LET c == Call(tag, f, g)
      kept == SubSeq(snaps, 1, Len(f.History) - f.historyOffset)
  IN /\ watch' = watch
     /\ prev' = IF "calls" \in watch THEN last ELSE NoCall
     /\ last' = IF "calls" \in watch THEN c ELSE NoCall
     /\ snaps' = IF "flips" \in watch
                 THEN (IF g.panicked \/ FlipRun(tag.op) = <<>> THEN <<>>
                       ELSE IF Len(FlipRun(tag.op)) = 1 THEN <<f>> ELSE snaps)
                 ELSE IF "moves" \in watch
                 THEN (IF g.panicked \/ MoveRun(tag.op) = <<>> THEN <<>>
                       ELSE IF Len(MoveRun(tag.op)) = 1 THEN <<f>> ELSE snaps)
                 ELSE IF g.panicked \/ "snaps" \notin watch THEN snaps
                 ELSE IF Appended(c)
                 THEN LastN(Append(kept, View(f)), Len(g.History))
                 ELSE snaps
     /\ run' = IF "flips" \in watch
               THEN (IF g.panicked THEN <<>> ELSE FlipRun(tag.op))
               ELSE IF "moves" \in watch
               THEN (IF g.panicked THEN <<>> ELSE MoveRun(tag.op))
               ELSE IF g.panicked \/ "run" \notin watch THEN <<>>
               ELSE IF Appended(c)
               THEN LastN(Append(run, tag.op),
                          IF Len(run) + 1 <= Len(g.History)
                          THEN Len(run) + 1 ELSE Len(g.History))
               ELSE IF tag.op = "DrawPixel" /\ run # <<>>
                       /\ run[Len(run)] = "AppendHistoryPixel"
               THEN run
               ELSE <<>>

\* one call of a method by the user interface; `budget` is the number of calls
\* a run may still make
StepDisk(tag, g, d) ==
  /\ ~f.panicked
  /\ budget > 0
  /\ budget' = budget - 1
  /\ f' = Forget(g)
  /\ disk' = d
  /\ menu' = menu
  /\ Observe(tag, g)

\* a call that leaves the file on disk alone
Step(tag, g) == StepDisk(tag, g, disk)

\* ------------------------------------------------------------------ actions
\* UIFileSystem.Update on the frame a mouse button goes down
MouseDownAppendHistory ==
  Step(Tag("AppendHistoryPixel", f.CurrentLayer),
       AppendHistory(f, HistoryPixel(EmptyMap, f.CurrentLayer)))

\* coordinates from one left of (above) the canvas to MaxX (MaxY); the call
\* record keeps the coordinate only under the watch "coords"
CallDrawPixel ==
  \E x \in (-1)..MaxX, y \in (-1)..MaxY, color \in Colors :
     Step(Tag("DrawPixel", IF "coords" \in watch THEN <<x, y>> ELSE 0),
          DrawPixel(f, x, y, color, TRUE))

\* a frame; the call record keeps the buttons and UIHasControl of the frame
CallUpdate ==
  \E left \in BOOLEAN, right \in BOOLEAN, uiHasControl \in BOOLEAN,
     x \in (-1)..MaxX, y \in (-1)..MaxY :
     Step(Tag("Update", [left |-> left, right |-> right, ui |-> uiHasControl]),
          Update(f, left, right, uiHasControl, x, y))

\* a step of the menu leaves the document and its observation alone
MenuStep(m) ==
  /\ menu' = m
  /\ UNCHANGED <<f, disk, budget, watch, last, prev, snaps, run>>

\* the pointer comes over a button that is on screen
MenuEnter ==
  \E b \in MenuButtons :
     /\ b \notin menu.over
     /\ IF b = "file" THEN TRUE ELSE menu.shown[b]
     /\ MenuStep([OnMouseEnter(menu, b) EXCEPT !.over = @ \cup {b}])

\* the pointer leaves a button; at most MaxHides goroutines are started
MenuLeave ==
  \E b \in menu.over :
     /\ Len(menu.hides) < MaxHides
     /\ MenuStep([OnMouseLeave(menu, b) EXCEPT !.over = @ \ {b}])

HideWake ==
  \E i \in 1..Len(menu.hides) :
     /\ menu.hides[i].pc = "sleep"
     /\ MenuStep(HideAwake(menu, i))

HideButton ==
  \E i \in 1..Len(menu.hides) :
     /\ menu.hides[i].pc = "hide"
     /\ MenuStep(HideNext(menu, i))

CallDraw == Step(Tag("Draw", 0), Draw(f))

CallUndo == Step(Tag("Undo", 0), Undo(f))

CallRedo == Step(Tag("Redo", 0), Redo(f))

CallSetCurrentLayer ==
  \E index \in 0..(Len(f.Layers) - 1) :
     /\ index # f.CurrentLayer
     /\ Step(Tag("SetCurrentLayer", index), SetCurrentLayer(f, index))

CallAddNewLayer ==
  /\ Len(f.LayerPixelData) < MaxLayers
  /\ Step(Tag("AddNewLayer", 0), AddNewLayer(f))

CallDeleteLayer ==
  \E index \in 0..(Len(f.Layers) - 1) :
     Step(Tag("DeleteLayer", index), DeleteLayer(f, index, TRUE))

CallRestoreLayer ==
  \E index \in 0..Len(f.Layers) :
     Step(Tag("RestoreLayer", index), RestoreLayer(f, index))

CallMergeLayerDown ==
  \E index \in 0..(Len(f.Layers) - 1) :
     Step(Tag("MergeLayerDown", index), MergeLayerDown(f, index))

CallMoveLayerUp ==
  \E index \in 0..(Len(f.Layers) - 1) :
     Step(Tag("MoveLayerUp", index), MoveLayerUp(f, index, TRUE))

CallMoveLayerDown ==
  \E index \in 0..(Len(f.Layers) - 1) :
     Step(Tag("MoveLayerDown", index), MoveLayerDown(f, index, TRUE))

Directions == 0..8

\* the call record keeps the direction only under the watch "anchor"
CallResizeCanvas ==
  \E width \in 1..(MaxX + 1), height \in 1..(MaxY + 1), direction \in Directions :
     Step(Tag("ResizeCanvas", IF "anchor" \in watch THEN direction ELSE 0),
          ResizeCanvas(f, width, height, direction))

CallAddNewAnimation ==
  /\ Len(f.Animations) < MaxAnimations
  /\ Step(Tag("AddNewAnimation", 0), AddNewAnimation(f))

CallSetCurrentAnimation ==
  \E index \in 0..(Len(f.Animations) - 1) :
     /\ index # f.CurrentAnimation
     /\ Step(Tag("SetCurrentAnimation", index), SetCurrentAnimation(f, index))

\* indices from one below the first animation to two past the last
CallDeleteAnimation ==
  \E index \in (-1)..(Len(f.Animations) + 1) :
     Step(Tag("DeleteAnimation", index), DeleteAnimation(f, index))

CallGetAnimation ==
  \E index \in (-1)..(Len(f.Animations) + 1) :
     Step(Tag("GetAnimation", index), GetAnimation(f, index))

\* rectangles (x0, y0, x1, y1) inside the canvas
Rects(g) ==
  {b \in (0..(g.CanvasWidth - 1)) \X (0..(g.CanvasHeight - 1))
          \X (0..(g.CanvasWidth - 1)) \X (0..(g.CanvasHeight - 1)) :
     b[1] <= b[3] /\ b[2] <= b[4]}

CallStartSelection ==
  \E b \in Rects(f) :
     /\ ~f.DoingSelection
     /\ Step(Tag("StartSelection", 0), StartSelection(f, b))

\* the call record keeps (dx, dy) only under the watch "moves"
CallMoveSelection ==
  \E dx \in {-1, 0, 1}, dy \in {-1, 0, 1} :
     /\ f.DoingSelection
     /\ Step(Tag("MoveSelection", IF "moves" \in watch THEN <<dx, dy>> ELSE 0),
             MoveSelection(f, dx, dy))

CallCommitSelection == Step(Tag("CommitSelection", 0), CommitSelection(f))

CallDeleteSelection ==
  /\ f.DoingSelection
  /\ Step(Tag("DeleteSelection", 0), DeleteSelection(f))

CallCancelSelection == Step(Tag("CancelSelection", 0), CancelSelection(f))

CallCopy == Step(Tag("Copy", 0), Copy(f))

CallPaste == Step(Tag("Paste", 0), Paste(f))

CallFlipHorizontal == Step(Tag("FlipHorizontal", 0), FlipHorizontal(f))

CallFlipVertical == Step(Tag("FlipVertical", 0), FlipVertical(f))

\* ---------------------------------------------------------- specifications
NoObservation == last = NoCall /\ prev = NoCall /\ snaps = <<>> /\ run = <<>>

\* no file at the path
NoFile == [ext |-> "", ser |-> <<>>]

\* a .pix file of the given layers (above the first, hidden or not), with the
\* names NewFile and AddNewLayer give and no animation
PixFile(pixelDatas, hidden, canvasWidth, canvasHeight) ==
  [ext |-> ".pix",
   ser |-> [CanvasWidth |-> canvasWidth, CanvasHeight |-> canvasHeight,
            Layers |-> [i \in 1..Len(pixelDatas) |->
                          [Name |-> IF i = 1 THEN "background"
                                    ELSE IF i = Len(pixelDatas) THEN "hidden"
                                    ELSE "new layer",
                           Hidden |-> hidden[i],
                           PixelData |-> pixelDatas[i]]],
            Animations |-> <<>>]]

Shown(n) == [i \in 1..n |-> FALSE]

\* color.RGBA() of a pixel and uint8() of each channel: the channels come
\* multiplied by the alpha, so a colour that is opaque or fully transparent
\* comes back as it is and a partly transparent one comes back darker
FromRGBA(c) == IF c \in Opaque \cup {Transparent} THEN c ELSE 100 + c

\* Open: a File from NewFile(64, 64, 8, 8); for a .pix file the canvas size,
\* the layers and the animations are those of the decoded record, one new
\* Layer per LayerSer; os.Stat of a missing path leaves fi nil and fi.Mode()
\* panics; for a .png file the canvas has the size of the image and the first
\* layer holds every pixel of it; any other extension leaves the new File as
\* it is
Open(d, maxActions) ==
  LET g == NewFile(OpenSize, OpenSize, maxActions)
      n == Len(d.ser.Layers)
  IN IF d = NoFile THEN Panic(g)
     ELSE IF d.ext = ".png"
     THEN [g EXCEPT !.CanvasWidth = d.ser.Width,
                    !.CanvasHeight = d.ser.Height,
                    !.Maps = <<[p \in DOMAIN d.ser.Pix |-> FromRGBA(d.ser.Pix[p])],
                               EmptyMap>>,
                    !.hasInitialFill = {1}]
     ELSE IF d.ext = ".pix"
     THEN [g EXCEPT !.CanvasWidth = d.ser.CanvasWidth,
                    !.CanvasHeight = d.ser.CanvasHeight,
                    !.Layers = [i \in 1..n |-> i],
                    !.LayerName = [i \in 1..n |-> d.ser.Layers[i].Name],
                    !.LayerHidden = [i \in 1..n |-> d.ser.Layers[i].Hidden],
                    !.LayerPixelData = [i \in 1..n |-> i],
                    !.Maps = [i \in 1..n |-> d.ser.Layers[i].PixelData],
                    !.Animations = d.ser.Animations]
     ELSE g

\* image.NewNRGBA: every pixel of the rectangle is the zero colour
NewNRGBA(width, height) ==
  [p \in (0..(width - 1)) \X (0..(height - 1)) |-> ZeroColor]

\* for pos, data := range layer.PixelData { if data.A != 0 { img.Set(...) } }:
\* Set stores the colour as it is and does nothing outside the rectangle
PngSetLayer(img, m) ==
  [p \in DOMAIN img |->
     IF p \in DOMAIN m /\ m[p] # Transparent THEN m[p] ELSE img[p]]

\* the loop over f.Layers[:len(f.Layers)-1], from the 1-based position k on
RECURSIVE PngLayers(_, _, _)
PngLayers(g, img, k) ==
  IF k > Len(g.Layers) - 1 THEN img
  ELSE PngLayers(g,
                 IF ~g.LayerHidden[g.Layers[k]]
                 THEN PngSetLayer(img, g.Maps[g.LayerPixelData[g.Layers[k]]])
                 ELSE img,
                 k + 1)

\* SaveAs: os.Create empties the file at the path; for ".png" the file is the
\* image of the layers below the last;  for ".pix" the record has
\* one LayerSer for every element of f.Layers and one AnimationSer for every
\* animation; an extension that is not supported writes nothing
SaveAs(g, ext) ==
  IF ext = ".pix"
  THEN [ext |-> ext,
        ser |-> [CanvasWidth |-> g.CanvasWidth, CanvasHeight |-> g.CanvasHeight,
                 Layers |-> [l \in 1..Len(g.Layers) |->
                               [Name |-> g.LayerName[g.Layers[l]],
                                Hidden |-> g.LayerHidden[g.Layers[l]],
                                PixelData |-> g.Maps[g.LayerPixelData[g.Layers[l]]]]],
                 Animations |-> g.Animations]]
  ELSE IF ext = ".png"
  THEN [ext |-> ext,
        ser |-> [Width |-> g.CanvasWidth, Height |-> g.CanvasHeight,
                 Pix |-> PngLayers(g, NewNRGBA(g.CanvasWidth, g.CanvasHeight), 1)]]
  ELSE [ext |-> ext, ser |-> <<>>]

CallSaveAs ==
  \E ext \in {".pix", ".txt"} :
     StepDisk(Tag("SaveAs", 0), f, SaveAs(f, ext))

CallSaveAsPng == StepDisk(Tag("SaveAs", 0), f, SaveAs(f, ".png"))

CallOpen == Step(Tag("Open", 0), Open(disk, MaxHistory))

\* pixel maps that cover a canvas
FullMaps(w, h) == [((0..(w - 1)) \X (0..(h - 1))) -> Colors]

\* pixel gestures, undo and redo on a new document
InitPixel ==
  /\ \E w \in 1..(MaxX + 1), h \in 1..(MaxY + 1) : f = NewFile(w, h, MaxHistory)
  /\ disk = NoFile
  /\ budget = PixelCalls
  /\ watch = {"snaps", "run"}
  /\ NoObservation
  /\ menu = NewMenuUI

NextPixel ==
  \/ MouseDownAppendHistory
  \/ CallDrawPixel
  \/ CallUndo
  \/ CallRedo

SpecPixel == InitPixel /\ [][NextPixel]_vars

\* the history log under the operations that append an entry
InitHistory ==
  /\ \E w \in 1..(MaxX + 1), h \in 1..(MaxY + 1) : f = NewFile(w, h, MaxHistory)
  /\ disk = NoFile
  /\ budget = HistoryCalls
  /\ watch = {"calls"}
  /\ NoObservation
  /\ menu = NewMenuUI

NextHistory ==
  \/ MouseDownAppendHistory
  \/ CallUndo
  \/ CallRedo
  \/ CallAddNewLayer
  \/ CallDeleteLayer
  \/ CallMergeLayerDown
  \/ CallMoveLayerUp
  \/ CallMoveLayerDown
  \/ CallResizeCanvas

SpecHistory == InitHistory /\ [][NextHistory]_vars

\* layer operations on an opened document of three layers
InitLayers ==
  /\ \E a \in FullMaps(1, 1), b \in FullMaps(1, 1) :
        f = Open(PixFile(<<a, b, EmptyMap>>, Shown(3), 1, 1), MaxHistory)
  /\ disk = NoFile
  /\ budget = LayerCalls
  /\ watch = {"calls", "snaps", "run"}
  /\ NoObservation
  /\ menu = NewMenuUI

NextLayers ==
  \/ CallUndo
  \/ CallRedo
  \/ CallAddNewLayer
  \/ CallDeleteLayer
  \/ CallMergeLayerDown
  \/ CallMoveLayerUp
  \/ CallMoveLayerDown

SpecLayers == InitLayers /\ [][NextLayers]_vars

\* canvas resizes between pixel gestures
InitResize ==
  /\ \E w \in 1..(MaxX + 1), h \in 1..(MaxY + 1) : f = NewFile(w, h, MaxHistory)
  /\ disk = NoFile
  /\ budget = ResizeCalls
  /\ watch = {"calls", "snaps"}
  /\ NoObservation
  /\ menu = NewMenuUI

NextResize ==
  \/ MouseDownAppendHistory
  \/ CallDrawPixel
  \/ CallResizeCanvas
  \/ CallUndo
  \/ CallRedo

SpecResize == InitResize /\ [][NextResize]_vars

\* pixel maps that hold some of the coordinates of a canvas
SparseMaps(w, h) ==
  UNION {[S -> Colors] : S \in SUBSET ((0..(w - 1)) \X (0..(h - 1)))}

\* flips and floating selections on an opened document of one layer
InitFlip ==
  /\ \E w \in 1..(MaxX + 1), h \in 1..(MaxY + 1) :
        \E a \in SparseMaps(w, h) : f = Open(PixFile(<<a, EmptyMap>>, Shown(2), w, h), MaxHistory)
  /\ disk = NoFile
  /\ budget = FlipCalls
  /\ watch = {"flips"}
  /\ NoObservation
  /\ menu = NewMenuUI

NextFlip ==
  \/ CallStartSelection
  \/ CallMoveSelection
  \/ CallFlipHorizontal
  \/ CallCommitSelection

SpecFlip == InitFlip /\ [][NextFlip]_vars

\* deletes and restores of layers, by the caller and by Undo and Redo
InitRestore ==
  /\ \E a \in FullMaps(1, 1), b \in FullMaps(1, 1) :
        f = Open(PixFile(<<a, b, EmptyMap>>, Shown(3), 1, 1), MaxHistory)
  /\ disk = NoFile
  /\ budget = RestoreCalls
  /\ watch = {"calls", "snaps"}
  /\ NoObservation
  /\ menu = NewMenuUI

NextRestore ==
  \/ CallDeleteLayer
  \/ CallRestoreLayer
  \/ CallAddNewLayer
  \/ CallMergeLayerDown
  \/ CallUndo
  \/ CallRedo

SpecRestore == InitRestore /\ [][NextRestore]_vars

\* the list of animations of a new document
InitAnimation ==
  /\ \E w \in 1..(MaxX + 1), h \in 1..(MaxY + 1) : f = NewFile(w, h, MaxHistory)
  /\ disk = NoFile
  /\ budget = AnimationCalls
  /\ watch = {"calls"}
  /\ NoObservation
  /\ menu = NewMenuUI

NextAnimation ==
  \/ CallAddNewAnimation
  \/ CallSetCurrentAnimation
  \/ CallDeleteAnimation
  \/ CallGetAnimation

SpecAnimation == InitAnimation /\ [][NextAnimation]_vars

\* canvas resizes from every anchor on an opened document of one layer
InitAnchor ==
  /\ \E w \in 1..(MaxX + 1), h \in 1..(MaxY + 1) :
        \E a \in SparseMaps(w, h) : f = Open(PixFile(<<a, EmptyMap>>, Shown(2), w, h), MaxHistory)
  /\ disk = NoFile
  /\ budget = AnchorCalls
  /\ watch = {"calls", "anchor"}
  /\ NoObservation
  /\ menu = NewMenuUI

NextAnchor ==
  \/ CallResizeCanvas
  \/ CallUndo
  \/ CallRedo

SpecAnchor == InitAnchor /\ [][NextAnchor]_vars

\* pixel writes and floating selections, inside and outside the canvas
InitSelection ==
  /\ \E w \in 1..(MaxX + 1), h \in 1..(MaxY + 1) :
        \E a \in SparseMaps(w, h) : f = Open(PixFile(<<a, EmptyMap>>, Shown(2), w, h), MaxHistory)
  /\ disk = NoFile
  /\ budget = SelectionCalls
  /\ watch = {"calls", "coords"}
  /\ NoObservation
  /\ menu = NewMenuUI

NextSelection ==
  \/ MouseDownAppendHistory
  \/ CallDrawPixel
  \/ CallStartSelection
  \/ CallMoveSelection
  \/ CallCommitSelection

SpecSelection == InitSelection /\ [][NextSelection]_vars

\* saving and opening .pix files between layer operations and pixel writes
InitSave ==
  /\ \E w \in 1..(MaxX + 1), h \in 1..(MaxY + 1), hidden \in BOOLEAN :
        \E a \in FullMaps(w, h) :
           f = Open(PixFile(<<a, EmptyMap>>, <<hidden, FALSE>>, w, h), MaxHistory)
  /\ disk = NoFile
  /\ budget = SaveCalls
  /\ watch = {"calls"}
  /\ NoObservation
  /\ menu = NewMenuUI

NextSave ==
  \/ CallAddNewLayer
  \/ MouseDownAppendHistory
  \/ CallDrawPixel
  \/ CallAddNewAnimation
  \/ CallSaveAs
  \/ CallOpen

SpecSave == InitSave /\ [][NextSave]_vars

\* pixel maps that cover a canvas with opaque, partly transparent and fully
\* transparent pixels
ExportColors == {Transparent, Red, Glass}
ExportMaps(w, h) == [((0..(w - 1)) \X (0..(h - 1))) -> ExportColors]

\* exports to .png of an opened document of two layers, hidden or shown, and
\* a preview layer that holds pixels
InitExport ==
  /\ \E w \in 1..(MaxX + 1), hidden \in [1..2 -> BOOLEAN] :
        \E a \in ExportMaps(w, 1), b \in ExportMaps(w, 1), c \in ExportMaps(w, 1) :
           f = Open(PixFile(<<a, b, c>>, <<hidden[1], hidden[2], FALSE>>, w, 1),
                    MaxHistory)
  /\ disk = NoFile
  /\ budget = ExportCalls
  /\ watch = {"calls"}
  /\ NoObservation
  /\ menu = NewMenuUI

NextExport ==
  \/ CallSetCurrentLayer
  \/ MouseDownAppendHistory
  \/ CallDrawPixel
  \/ CallSaveAsPng

SpecExport == InitExport /\ [][NextExport]_vars

\* frames of the mouse on a new document, between the operations of the
\* keyboard and of the panels
InitFrames ==
  /\ \E w \in 1..(MaxX + 1) : f = NewFile(w, 1, MaxHistory)
  /\ disk = NoFile
  /\ budget = FrameCalls
  /\ watch = {"calls"}
  /\ NoObservation
  /\ menu = NewMenuUI

NextFrames ==
  \/ CallUpdate
  \/ CallAddNewLayer
  \/ CallSetCurrentLayer
  \/ CallFlipHorizontal
  \/ CallResizeCanvas
  \/ CallUndo
  \/ CallRedo

SpecFrames == InitFrames /\ [][NextFrames]_vars

\* flips of the layer and of a floating selection, with the calls kept
InitMirror ==
  /\ \E w \in 1..(MaxX + 1), h \in 1..(MaxY + 1) :
        \E a \in SparseMaps(w, h) :
           f = Open(PixFile(<<a, EmptyMap>>, Shown(2), w, h), MaxHistory)
  /\ disk = NoFile
  /\ budget = MirrorCalls
  /\ watch = {"calls"}
  /\ NoObservation
  /\ menu = NewMenuUI

NextMirror ==
  \/ CallStartSelection
  \/ CallMoveSelection
  \/ CallFlipHorizontal
  \/ CallFlipVertical
  \/ CallCommitSelection
  \/ CallUndo

SpecMirror == InitMirror /\ [][NextMirror]_vars

\* selection sessions with the clipboard on an opened document of one layer
InitClipboard ==
  /\ \E w \in 1..(MaxX + 1), h \in 1..(MaxY + 1) :
        /\ w = 1 \/ h = 1
        /\ \E a \in SparseMaps(w, h) :
              f = Open(PixFile(<<a, EmptyMap>>, Shown(2), w, h), MaxHistory)
  /\ disk = NoFile
  /\ budget = ClipboardCalls
  /\ watch = {"calls", "moves"}
  /\ NoObservation
  /\ menu = NewMenuUI

NextClipboard ==
  \/ CallStartSelection
  \/ CallMoveSelection
  \/ CallCommitSelection
  \/ CallCopy
  \/ CallPaste
  \/ CallFlipHorizontal
  \/ CallFlipVertical
  \/ CallUndo

SpecClipboard == InitClipboard /\ [][NextClipboard]_vars

\* a paste over a floating selection, with a layer added meanwhile
InitPaste ==
  /\ \E w \in 1..(MaxX + 1), h \in 1..(MaxY + 1) :
        /\ h = 1
        /\ \E a \in SparseMaps(w, h) :
              f = Open(PixFile(<<a, EmptyMap>>, Shown(2), w, h), MaxHistory)
  /\ disk = NoFile
  /\ budget = PasteCalls
  /\ watch = {"calls"}
  /\ NoObservation
  /\ menu = NewMenuUI

NextPaste ==
  \/ CallStartSelection
  \/ CallMoveSelection
  \/ CallAddNewLayer
  \/ CallCopy
  \/ CallPaste

SpecPaste == InitPaste /\ [][NextPaste]_vars

\* selection sessions that are cancelled, deleted or undone, on an opened
\* document of one layer and one row
InitCancel ==
  /\ \E w \in 1..(MaxX + 1) :
        \E a \in SparseMaps(w, 1) :
           f = Open(PixFile(<<a, EmptyMap>>, Shown(2), w, 1), MaxHistory)
  /\ disk = NoFile
  /\ budget = CancelCalls
  /\ watch = {"calls"}
  /\ NoObservation
  /\ menu = NewMenuUI

NextCancel ==
  \/ CallStartSelection
  \/ CallMoveSelection
  \/ CallCommitSelection
  \/ CallCancelSelection
  \/ CallDeleteSelection
  \/ CallCopy
  \/ CallPaste
  \/ CallUndo

SpecCancel == InitCancel /\ [][NextCancel]_vars

\* frames of Update and Draw on an opened document of two layers and the
\* preview layer, of one row; the second layer holds at most the pixel (0, 0)
InitDraw ==
  /\ \E w \in 1..(MaxX + 1) :
        \E a \in SparseMaps(w, 1), b \in SparseMaps(1, 1) :
           f = Open(PixFile(<<a, b, EmptyMap>>, Shown(3), w, 1), MaxHistory)
  /\ disk = NoFile
  /\ budget = DrawCalls
  /\ watch = {"calls"}
  /\ NoObservation
  /\ menu = NewMenuUI

NextDraw ==
  \/ CallDraw
  \/ CallUpdate
  \/ CallSetCurrentLayer
  \/ CallAddNewLayer

SpecDraw == InitDraw /\ [][NextDraw]_vars

\* hover events on the menu buttons and the delayed hides they start, next to
\* a pixel write on a new document
InitMenu ==
  /\ f = NewFile(1, 1, MaxHistory)
  /\ disk = NoFile
  /\ budget = MenuCalls
  /\ watch = {"calls"}
  /\ NoObservation
  /\ menu = NewMenuUI

NextMenu ==
  \/ MenuEnter
  \/ MenuLeave
  \/ HideWake
  \/ HideButton
  \/ CallDrawPixel

SpecMenu == InitMenu /\ [][NextMenu]_vars

\* ------------------------------------------------------------------ claims
RECURSIVE UndoN(_, _)
UndoN(g, n) == IF n = 0 THEN g ELSE UndoN(Forget(Undo(g)), n - 1)

RECURSIVE RedoN(_, _)
RedoN(g, n) == IF n = 0 THEN g ELSE RedoN(Forget(Redo(g)), n - 1)

Reverse(s) == [k \in 1..Len(s) |-> s[Len(s) + 1 - k]]

\* the snapshot taken before the first of the n newest entries of History
SnapBefore(n) == snaps[Len(f.History) - n + 1]

AllGestures(r) == \A k \in 1..Len(r) : r[k] = "AppendHistoryPixel"

\* C1: after N pixel gestures (AppendHistory(HistoryPixel) and then DrawPixel
\* calls), N calls of Undo leave the colours of every layer as they were
\* before the first gesture, and N calls of Redo after them leave the colours
\* as they were after the last gesture.
C1_UndoRedoRoundTrip ==
  (run # <<>> /\ AllGestures(run)) =>
     LET n == Len(run)
         undone == UndoN(f, n)
     IN /\ LayerColors(undone) = SnapBefore(n).Colors
        /\ LayerColors(RedoN(undone, n)) = LayerColors(f)

\* C2: in the open PixelEdit entry of a gesture, the delta of a coordinate
\* keeps as previous the colour the pixel had before the gesture and as current
\* the colour the pixel has now.
C2_DeltaKeepsFirstPrevious ==
  (run # <<>> /\ run[Len(run)] = "AppendHistoryPixel") =>
     LET entry == f.History[Len(f.History)]
         layer == entry.LayerIndex + 1
     IN \A loc \in DOMAIN entry.PixelState :
          /\ entry.PixelState[loc].Prev = SnapBefore(1).Colors[layer][loc]
          /\ entry.PixelState[loc].Current = LayerColors(f)[layer][loc]

\* the entries of History the cursor has not undone
Kept(g) == SubSeq(g.History, 1, Len(g.History) - g.historyOffset)

\* the type of the entry an operation appends
EntryType(op) ==
  CASE op = "AppendHistoryPixel" -> "HistoryPixel"
    [] op = "MergeLayerDown" -> "CompoundHistory"
    [] op = "ResizeCanvas" -> "HistoryResize"
    [] OTHER -> "HistoryLayer"

\* C3: after M >= 1 undos, an operation that appends an entry discards every
\* undone entry and sets historyOffset to 0, and a Redo right after it changes
\* nothing in the document.
C3_AppendDiscardsUndone ==
  [][/\ (Appended(last') /\ last'.undone >= 1) =>
          /\ f'.historyOffset = 0
          /\ Len(f'.History) = Len(Kept(f)) + 1
          /\ Kept(f') = Append(Kept(f), f'.History[Len(f'.History)])
          /\ f'.History[Len(f'.History)].type = EntryType(last'.op)
     /\ (Appended(last) /\ last.undone >= 1 /\ last'.op = "Redo") => f' = f
    ]_vars

C3_Witness ==
  /\ Appended(prev) /\ prev.undone >= 1
  /\ last.op = "Redo"
  /\ ~f.panicked

C5_OffsetInRange ==
  /\ 0 <= f.historyOffset
  /\ f.historyOffset <= Len(f.History)

\* a full log undone to its oldest entry, then an append: the offset goes from
\* len(History) back to 0 while the log shrinks to the new entry
C5_Witness ==
  /\ Appended(last)
  /\ last.len = f.HistoryMaxActions /\ last.undone = last.len
  /\ f.historyOffset = 0
  /\ Len(f.History) = 1

\* C6: Undo at historyOffset = len(History) and Redo at historyOffset = 0
\* change nothing: every field of the File is as before and nothing panics.
C6_BoundaryNoOp ==
  [][((last'.op = "Undo" /\ f.historyOffset = Len(f.History))
        \/ (last'.op = "Redo" /\ f.historyOffset = 0)) =>
          (f' = f /\ ~f'.panicked)
    ]_vars

\* a full log undone entry by entry, and one more Undo at the boundary
C6_Witness ==
  /\ prev.op = "Undo" /\ prev.undone = prev.len - 1
  /\ last.op = "Undo" /\ last.undone = last.len
  /\ last.len = f.HistoryMaxActions
  /\ f.historyOffset = Len(f.History)

\* the types of the children of a compound entry
ChildTypes(entry) == [k \in 1..Len(entry.Actions) |-> entry.Actions[k].type]

\* the entry the last Undo or Redo applied (neither was a boundary no-op)
UndoneEntry == f.History[Len(f.History) - f.historyOffset + 1]
RedoneEntry == f.History[Len(f.History) - f.historyOffset]

\* C7: for a CompoundHistory entry, Undo applies the children last child
\* first and Redo applies them first child first.
C7_CompoundOrder ==
  /\ (last.op = "Undo" /\ last.undone < last.len
        /\ UndoneEntry.type = "CompoundHistory") =>
       last.processed = Reverse(ChildTypes(UndoneEntry))
  /\ (last.op = "Redo" /\ last.undone > 0
        /\ RedoneEntry.type = "CompoundHistory") =>
       last.processed = ChildTypes(RedoneEntry)

\* C8: one Undo right after a successful MergeLayerDown(i) restores the layer
\* list, with the merged layer back at index i holding its pixels, and gives
\* the destination layer i-1 its colours of before the merge.
C8_MergeUndo ==
  (prev.op = "MergeLayerDown" /\ ~prev.err /\ last.op = "Undo") =>
     LET i == prev.index
         before == SnapBefore(1)
     IN /\ f.Layers = before.Layers
        /\ LayerColors(f)[i + 1] = before.Colors[i + 1]
        /\ LayerColors(f)[i] = before.Colors[i]

\* the merge changed a pixel of the destination, and the Undo took it back
C8_Witness ==
  /\ prev.op = "MergeLayerDown" /\ ~prev.err /\ last.op = "Undo"
  /\ \E p \in Coords :
        LET i == prev.index
        IN /\ LayerColors(f)[i + 1][p] # Transparent
           /\ LayerColors(f)[i][p] # LayerColors(f)[i + 1][p]
           /\ LayerColors(f)[i][p] # Transparent

LayerOps ==
  {"AddNewLayer", "DeleteLayer", "MoveLayerUp", "MoveLayerDown", "MergeLayerDown"}

\* C9: after k recorded layer operations, k calls of Undo give back the layer
\* list of before the first of them: the same layers in the same order.
C9_LayerRoundTrip ==
  (run # <<>> /\ \A k \in 1..Len(run) : run[k] \in LayerOps) =>
     UndoN(f, Len(run)).Layers = SnapBefore(Len(run)).Layers

\* C10: one Undo right after ResizeCanvas restores CanvasWidth and
\* CanvasHeight and leaves every layer with the pixel map it had before.
C10_ResizeUndo ==
  (prev.op = "ResizeCanvas" /\ last.op = "Undo") =>
     LET before == SnapBefore(1)
     IN /\ f.CanvasWidth = before.CanvasWidth
        /\ f.CanvasHeight = before.CanvasHeight
        /\ View(f).Layers = before.Layers
        /\ View(f).PixelData = before.PixelData

\* a resize that changed both sizes of a canvas with a coloured pixel, undone
C10_Witness ==
  /\ prev.op = "ResizeCanvas" /\ last.op = "Undo"
  /\ UndoneEntry.CurrentWidth # f.CanvasWidth
  /\ UndoneEntry.CurrentHeight # f.CanvasHeight
  /\ \E p \in Coords : LayerColors(f)[1][p] # Transparent

\* the File before the first of the two flips, and the layer that was current
FlipBefore == snaps[1]
FlippedLayer == FlipBefore.CurrentLayer + 1

C12_DeleteRestore ==
  /\ (prev.op = "DeleteLayer" /\ ~prev.err
        /\ last.op = "RestoreLayer" /\ last.index = prev.index) =>
       /\ ~last.err /\ ~f.panicked
       /\ View(f).Layers = SnapBefore(1).Layers
       /\ View(f).PixelData = SnapBefore(1).PixelData
  /\ (last.op = "DeleteLayer" /\ ~last.err) => f.CurrentLayer <= Len(f.Layers) - 2

\* the lowest of three layers, holding a coloured pixel, deleted and restored
C12_Witness ==
  /\ prev.op = "DeleteLayer" /\ ~prev.err /\ prev.index = 0
  /\ last.op = "RestoreLayer" /\ last.index = 0
  /\ Len(f.Layers) = 3
  /\ \E p \in Coords : LayerColors(f)[1][p] # Transparent

C14_PreviewStaysLast ==
  [][f'.Layers[Len(f'.Layers)] = f.Layers[Len(f.Layers)]]_vars

\* C15: DeleteLayer with len(Layers) <= 2, and MergeLayerDown with index 0 or
\* with len(Layers) <= 2, return an error and change no field of the File; a
\* call of either that returns an error has changed nothing.
C15_RefusedCallsChangeNothing ==
  [][/\ (last'.op = "DeleteLayer" /\ Len(f.Layers) <= 2) => (last'.err /\ f' = f)
     /\ (last'.op = "MergeLayerDown" /\ (last'.index = 0 \/ Len(f.Layers) <= 2)) =>
          (last'.err /\ f' = f)
     /\ (last'.op \in {"DeleteLayer", "MergeLayerDown"} /\ last'.err) => f' = f
    ]_vars

\* with two layers left, a delete refused and then a merge refused
C15_Witness ==
  /\ prev.op = "DeleteLayer" /\ prev.err
  /\ last.op = "MergeLayerDown" /\ last.index = 1 /\ last.err
  /\ Len(f.Layers) = 2
  /\ Len(f.deletedLayers) >= 1

\* C16: GetAnimation(index) and DeleteAnimation(index) with an index outside
\* 0..len(Animations)-1 return an error, do not panic and leave Animations and
\* CurrentAnimation as they were.
C16_AnimationIndexChecked ==
  [][(last'.op \in {"GetAnimation", "DeleteAnimation"}
        /\ (last'.index < 0 \/ last'.index >= Len(f.Animations))) =>
          /\ last'.err
          /\ ~f'.panicked
          /\ f'.Animations = f.Animations
          /\ f'.CurrentAnimation = f.CurrentAnimation
    ]_vars

\* every coordinate of every layer's pixel map is inside the canvas
AllInCanvas(g) ==
  \A i \in 1..Len(g.Layers) :
     \A p \in DOMAIN g.Maps[g.LayerPixelData[g.Layers[i]]] : InCanvas(g, p)

\* C17: after ResizeCanvas, and after an Undo or Redo that applied a
\* HistoryResize entry, every coordinate in every layer's PixelData lies inside
\* CanvasWidth x CanvasHeight.
C17_PixelsInsideCanvas ==
  (last.op = "ResizeCanvas"
     \/ (last.op \in {"Undo", "Redo"} /\ last.processed = <<"HistoryResize">>)) =>
    AllInCanvas(f)

\* the offsets the claim gives for an anchor: columns left, centre, right and
\* rows top, centre, bottom of the 3 x 3 grid of directions
AnchorDx(old, new, direction) ==
  CASE direction % 3 = 0 -> 0
    [] direction % 3 = 1 -> Half(old - new)
    [] OTHER -> old - new
AnchorDy(old, new, direction) ==
  CASE direction \div 3 = 0 -> 0
    [] direction \div 3 = 1 -> Half(old - new)
    [] OTHER -> old - new

\* C18: ResizeCanvas(width, height, direction) leaves in every layer's pixel
\* map, at (x-dx, y-dy), the colour the map had at (x, y), for every pixel
\* whose new coordinate is inside the new canvas, dx and dy being the offsets
\* of the direction for the previous and the new size.
C18_PixelsMovedByAnchor ==
  [][(last'.op = "ResizeCanvas" /\ ~f'.panicked) =>
       LET dx == AnchorDx(f.CanvasWidth, f'.CanvasWidth, last'.index)
           dy == AnchorDy(f.CanvasHeight, f'.CanvasHeight, last'.index)
       IN \A i \in 1..Len(f.Layers) :
            LET old == View(f).PixelData[i]
                new == View(f').PixelData[i]
            IN \A p \in DOMAIN old :
                 LET q == <<p[1] - dx, p[2] - dy>>
                 IN InCanvas(f', q) => (q \in DOMAIN new /\ new[q] = old[p])
    ]_vars

\* between g and h, no pixel map and no delta of a History entry has gained
\* or changed an entry at a coordinate outside the canvas
OutsideUntouched(g, h) ==
  /\ \A r \in DOMAIN h.Maps :
        \A p \in DOMAIN h.Maps[r] :
           ~InCanvas(g, p) =>
              (r \in DOMAIN g.Maps /\ p \in DOMAIN g.Maps[r]
                 /\ h.Maps[r][p] = g.Maps[r][p])
  /\ Len(h.History) = Len(g.History)
  /\ \A n \in 1..Len(h.History) :
        \A p \in DOMAIN h.History[n].PixelState :
           ~InCanvas(g, p) =>
              (p \in DOMAIN g.History[n].PixelState
                 /\ h.History[n].PixelState[p] = g.History[n].PixelState[p])

\* C19: DrawPixel and CommitSelection write no coordinate outside the canvas
\* into a pixel map or a history delta; DrawPixel at such a coordinate changes
\* nothing and does not panic, and CommitSelection does not panic.
C19_OutsideCanvasIgnored ==
  [][/\ (last'.op = "DrawPixel" /\ ~InCanvas(f, last'.index)) => f' = f
     /\ (last'.op = "DrawPixel" /\ ~f'.panicked) => OutsideUntouched(f, f')
     /\ last'.op = "CommitSelection" => (~f'.panicked /\ OutsideUntouched(f, f'))
    ]_vars

\* a selection of a red and a blue pixel moved so that the red one is stamped
\* over the place of the blue one and the blue one falls outside the canvas
C19_Witness ==
  /\ prev.op = "MoveSelection" /\ last.op = "CommitSelection"
  /\ Len(f.History) >= 1
  /\ LET ps == f.History[Len(f.History)].PixelState
     IN /\ \E p \in DOMAIN ps, q \in DOMAIN ps :
              /\ ps[p].Prev = Red /\ ps[p].Current = Transparent
              /\ ps[q].Prev = Blue /\ ps[q].Current = Red
        /\ \A r \in DOMAIN ps : ps[r].Current # Blue

\* what a .pix record keeps of the layer at a position of Layers
SavedLayer(g, l) ==
  [Name |-> g.LayerName[g.Layers[l]], Hidden |-> g.LayerHidden[g.Layers[l]],
   PixelData |-> g.Maps[g.LayerPixelData[g.Layers[l]]]]

\* C20: SaveAs to a .pix file writes the addressable layers and not the
\* preview layer (the last element of Layers); Open of a .pix file has the
\* layers of the record (name, hidden, pixels) and after them one new, empty
\* preview layer.
C20_PreviewNotPersisted ==
  [][/\ (last'.op = "SaveAs" /\ disk'.ext = ".pix") =>
          disk'.ser.Layers =
            [l \in 1..(Len(f.Layers) - 1) |-> SavedLayer(f, l)]
     /\ (last'.op = "Open" /\ disk.ext = ".pix") =>
          /\ Len(f'.Layers) = Len(disk.ser.Layers) + 1
          /\ \A l \in 1..Len(disk.ser.Layers) :
                SavedLayer(f', l) = disk.ser.Layers[l]
          /\ View(f').PixelData[Len(f'.Layers)] = EmptyMap
    ]_vars

\* the colour of a coordinate after the layers from the 1-based position k up
\* to the one below the preview layer, each one shown, are composited in array
\* order over the colour acc
RECURSIVE Composited(_, _, _, _)
Composited(g, p, k, acc) ==
  IF k > Len(g.Layers) - 1 THEN acc
  ELSE Composited(g, p, k + 1,
                  IF g.LayerHidden[g.Layers[k]] THEN acc
                  ELSE BlendWithOpacity(acc, Get(View(g).PixelData[k], p)))

\* C21: the image SaveAs writes to a .png file has the size of the canvas and,
\* at every coordinate, the colour that compositing the shown layers below the
\* preview layer in array order gives, each layer's pixel blended over the
\* result of the layers before it; hidden layers, the preview layer and pixels
\* of alpha 0 add nothing.
C21_PngComposite ==
  [][(last'.op = "SaveAs" /\ disk'.ext = ".png") =>
       /\ DOMAIN disk'.ser.Pix =
            (0..(f.CanvasWidth - 1)) \X (0..(f.CanvasHeight - 1))
       /\ \A p \in DOMAIN disk'.ser.Pix :
            disk'.ser.Pix[p] = Composited(f, p, 1, Transparent)
    ]_vars

\* the 1-based position in History of the entry at the cursor: the newest
\* entry that is not undone
CursorEntry(g) == Len(g.History) - g.historyOffset

\* C22: when a frame's DrawPixel calls have changed the colour of a pixel of a
\* layer, the entry at the history cursor is a PixelEdit entry for that layer
\* whose delta at the coordinate has the new colour as current, and one Undo
\* gives the pixel the delta's previous colour; this after any sequence of
\* AddNewLayer, SetCurrentLayer, flips, resizes, Undo and Redo.
C22_DrawPixelRecorded ==
  [][(last'.op = "Update" /\ ~f'.panicked) =>
       \A i \in 1..Len(f.Layers) : \A p \in Coords :
          LayerColors(f')[i][p] # LayerColors(f)[i][p] =>
             /\ CursorEntry(f') >= 1
             /\ LET entry == f'.History[CursorEntry(f')]
                IN /\ entry.type = "HistoryPixel"
                   /\ entry.LayerIndex = i - 1
                   /\ p \in DOMAIN entry.PixelState
                   /\ entry.PixelState[p].Current = LayerColors(f')[i][p]
                   /\ LayerColors(Undo(f'))[i][p] = entry.PixelState[p].Prev
    ]_vars

\* how many times a frame made the call
Calls(c, call) == Cardinality({k \in 1..Len(c.processed) : c.processed[k] = call})

\* the call was a frame in which Update read the buttons (the interface did
\* not have the input) and found the button down, or up
SawDown(c, button) == c.op = "Update" /\ ~c.index.ui /\ c.index[button]
SawUp(c, button) == c.op = "Update" /\ ~c.index.ui /\ ~c.index[button]
\* the button was up in the frame before, or there was no frame before
WasUp(c, button) == c.op = "none" \/ (c.op = "Update" /\ ~c.index[button])

\* what the claim asks of two frames in a row, for one button
GestureFrames(c, d, button, append, mouseUp) ==
  /\ (WasUp(c, button) /\ SawDown(d, button)) => Calls(d, append) = 1
  /\ (SawDown(c, button) /\ SawDown(d, button)) => Calls(d, append) = 0
  /\ (SawDown(c, button) /\ SawUp(d, button)) => Calls(d, mouseUp) = 1
  /\ (SawUp(c, button) /\ SawUp(d, button)) => Calls(d, mouseUp) = 0

\* C23: for each mouse button, the frame in which Update sees a new press
\* appends one PixelEdit entry, a frame in which the button is still held
\* appends none, the frame in which Update sees the release calls the tool's
\* MouseUp once, and a frame after that calls it no more, whatever UIHasControl
\* was in the frames before.
C23_OneEntryPerGesture ==
  [][(last'.op = "Update" /\ ~f'.panicked) =>
       /\ GestureFrames(last, last', "left", "Left.AppendHistory", "Left.MouseUp")
       /\ GestureFrames(last, last', "right", "Right.AppendHistory", "Right.MouseUp")
    ]_vars

\* C24: an Undo below the oldest-entry boundary raises historyOffset by one,
\* a Redo above the newest-entry boundary lowers it by one, and both leave
\* History as it was (the same entries in the same order), also when the entry
\* applied makes them call DeleteLayer, RestoreLayer, MoveLayerUp or
\* MoveLayerDown.
C24_UndoRedoKeepHistory ==
  [][/\ (last'.op = "Undo" /\ f.historyOffset < Len(f.History) /\ ~f'.panicked) =>
          /\ f'.historyOffset = f.historyOffset + 1
          /\ f'.History = f.History
     /\ (last'.op = "Redo" /\ f.historyOffset > 0 /\ ~f'.panicked) =>
          /\ f'.historyOffset = f.historyOffset - 1
          /\ f'.History = f.History
    ]_vars

\* an Undo that deleted the layer of a Create entry, after an Undo that moved
\* a layer back
C24_Witness ==
  /\ prev.op = "Undo" /\ prev.processed = <<"HistoryLayer">>
  /\ last.op = "Undo" /\ last.processed = <<"HistoryLayer">>
  /\ UndoneEntry.HistoryLayerAction = "Create"
  /\ f.History[Len(f.History) - f.historyOffset + 2].HistoryLayerAction
        \in {"MoveUp", "MoveDown"}
  /\ f.historyOffset = 2
  /\ ~f.panicked

Moves == {"MoveLayerUp", "MoveLayerDown"}

\* the 0-based position a recorded move left its layer at
MovedTo(c) == IF c.op = "MoveLayerUp" THEN c.index + 1 ELSE c.index - 1

\* C25: one Undo right after a recorded MoveLayerUp(i) or MoveLayerDown(i)
\* takes the moved layer back to index i and leaves Layers in the order of
\* before the move; one Redo after a move and its Undo leaves Layers in the
\* order of after the move.
C25_MoveUndoRedo ==
  /\ (prev.op \in Moves /\ ~prev.err /\ last.op = "Undo") =>
        /\ ~f.panicked
        /\ f.Layers = SnapBefore(1).Layers
        /\ f.Layers[prev.index + 1] = Forget(Redo(f)).Layers[MovedTo(prev) + 1]
  /\ (last.op \in Moves /\ ~last.err) =>
        Forget(Redo(Forget(Undo(f)))).Layers = f.Layers

\* two recorded moves on three layers and the preview layer, the second undone
C25_Witness ==
  /\ prev.op = "MoveLayerDown" /\ ~prev.err /\ last.op = "Undo"
  /\ Len(f.Layers) = 4
  /\ f.Layers[prev.index + 1] > f.Layers[prev.index + 2]
  /\ f.Layers[Len(f.Layers)] = 3

Flips == {"FlipHorizontal", "FlipVertical"}

\* the coordinate a flip of the whole canvas exchanges p with
CanvasMirror(op, g, p) ==
  IF op = "FlipHorizontal" THEN MirrorX(g.CanvasWidth, p)
  ELSE MirrorY(g.CanvasHeight, p)

\* C29: with no selection active, FlipHorizontal and FlipVertical append one
\* PixelEdit entry for the current layer (after the entries that were not
\* undone); for both coordinates of every mirrored pair of the canvas its
\* delta has the colour of before the flip as previous and the colour of after
\* the flip, which is the mirror coordinate's colour of before, as current;
\* one Undo then gives every coordinate of the layer its colour of before.
C29_FlipRecorded ==
  [][(last'.op \in Flips /\ ~f.DoingSelection /\ ~f'.panicked) =>
       LET n == Len(f'.History)
           entry == f'.History[n]
           layer == f.CurrentLayer + 1
           before == LayerColors(f)[layer]
           after == LayerColors(f')[layer]
       IN /\ n >= 1 /\ f'.historyOffset = 0
          /\ SubSeq(f'.History, 1, n - 1) = LastN(Kept(f), n - 1)
          /\ n = IF Len(Kept(f)) < f.HistoryMaxActions THEN Len(Kept(f)) + 1
                 ELSE f.HistoryMaxActions
          /\ entry.type = "HistoryPixel" /\ entry.LayerIndex = f.CurrentLayer
          /\ \A p \in Coords :
                (InCanvas(f, p) /\ CanvasMirror(last'.op, f, p) # p) =>
                   /\ p \in DOMAIN entry.PixelState
                   /\ entry.PixelState[p].Prev = before[p]
                   /\ entry.PixelState[p].Current = after[p]
                   /\ after[p] = before[CanvasMirror(last'.op, f, p)]
          /\ LayerColors(Forget(Undo(f')))[layer] = before
    ]_vars

\* a vertical flip of a canvas with a red pixel above a blue one
C29_Witness ==
  /\ last.op = "FlipVertical" /\ ~f.DoingSelection /\ ~f.panicked
  /\ Len(f.History) >= 1
  /\ LET ps == f.History[Len(f.History)].PixelState
     IN \E p \in DOMAIN ps :
          /\ ps[p].Prev = Red /\ ps[p].Current = Blue
          /\ p[2] = 0
          /\ LayerColors(f)[f.CurrentLayer + 1][p] = Blue

\* a pixel map or a selection with every key moved by (dx, dy)
Translated(m, d) ==
  [q \in {<<p[1] + d[1], p[2] + d[2]>> : p \in DOMAIN m} |->
     m[<<q[1] - d[1], q[2] - d[2]>>]]

\* the step appended one PixelEdit entry for the current layer after the
\* entries that were not undone
AppendedPixelEdit(g, h) ==
  LET n == Len(h.History)
  IN /\ n >= 1 /\ h.historyOffset = 0
     /\ n = IF Len(Kept(g)) < g.HistoryMaxActions THEN Len(Kept(g)) + 1
            ELSE g.HistoryMaxActions
     /\ SubSeq(h.History, 1, n - 1) = LastN(Kept(g), n - 1)
     /\ h.History[n].type = "HistoryPixel"
     /\ h.History[n].LayerIndex = g.CurrentLayer

\* the current layer's pixel map
CurrentMap(g) == g.Maps[PixelDataAt(g, g.CurrentLayer)]

\* the selected coordinates are recorded in the newest entry with the layer's
\* colour as previous and transparent as current, and cleared in the layer
CutFromLayer(g, h, sel) ==
  /\ h.History[Len(h.History)].PixelState =
        [p \in sel |-> [Prev |-> Get(CurrentMap(g), p), Current |-> Transparent]]
  /\ CurrentMap(h) =
        [p \in (DOMAIN CurrentMap(g)) \cup sel |->
           IF p \in sel THEN Transparent ELSE CurrentMap(g)[p]]
  /\ \A r \in DOMAIN g.Maps : r # PixelDataAt(g, g.CurrentLayer) => h.Maps[r] = g.Maps[r]

\* C26: a MoveSelection(dx, dy) on a non-empty selection moves the keys of
\* the selection and its bounds by (dx, dy).  The first one of a session (the
\* selection was not moving: the call follows StartSelection or Paste) appends
\* one PixelEdit entry and, unless the selection is pasted, records every
\* selected coordinate with the layer's colour as previous and transparent as
\* current and clears it in the layer; a later one (the selection was moving:
\* the call follows a MoveSelection) appends nothing and changes nothing else.
C26_FirstMoveRecords ==
  [][(last'.op = "MoveSelection" /\ DOMAIN f.Selection # {} /\ ~f'.panicked) =>
       /\ f'.Selection = Translated(f.Selection, last'.index)
       /\ f'.SelectionBounds =
            <<f.SelectionBounds[1] + last'.index[1],
              f.SelectionBounds[2] + last'.index[2],
              f.SelectionBounds[3] + last'.index[1],
              f.SelectionBounds[4] + last'.index[2]>>
       /\ last.op \in {"StartSelection", "Paste"} => ~f.SelectionMoving
       /\ last.op = "MoveSelection" => f.SelectionMoving
       /\ ~f.SelectionMoving =>
            /\ AppendedPixelEdit(f, f')
            /\ f'.SelectionMoving
            /\ ~f.IsSelectionPasted => CutFromLayer(f, f', DOMAIN f.Selection)
            /\ f.IsSelectionPasted =>
                 /\ f'.Maps = f.Maps
                 /\ f'.History[Len(f'.History)].PixelState = EmptyMap
       /\ f.SelectionMoving =>
            f' = [f EXCEPT !.Selection = f'.Selection,
                           !.SelectionBounds = f'.SelectionBounds]
    ]_vars

\* a second move of a selection of a red pixel, after the first one cut it
\* from the layer
C26_Witness ==
  /\ prev.op = "MoveSelection" /\ last.op = "MoveSelection"
  /\ last.index # <<0, 0>>
  /\ f.SelectionMoving /\ ~f.IsSelectionPasted /\ ~f.panicked
  /\ \E q \in DOMAIN f.Selection : f.Selection[q] = Red
  /\ Len(f.History) >= 1
  /\ LET ps == f.History[Len(f.History)].PixelState
     IN \E p \in DOMAIN ps :
          /\ ps[p] = [Prev |-> Red, Current |-> Transparent]
          /\ Get(CurrentMap(f), p) = Transparent

\* a run of MoveSelection calls that began with a selection that was not
\* moving, closed by the CommitSelection right after them
MovedAndCommitted ==
  /\ "moves" \in watch
  /\ run # <<>> /\ run[Len(run)] = "CommitSelection"
  /\ ~f.panicked

\* C27: after one or more MoveSelection calls on a selection that is not
\* pasted and the CommitSelection after them, History holds one entry more
\* than the entries kept before the first move, and one Undo leaves every
\* layer's colours as they were before the first move: at the vacated
\* coordinates, at the stamped ones, and at those that are both.
C27_MoveCommitOneUndo ==
  (MovedAndCommitted /\ ~snaps[1].IsSelectionPasted) =>
     /\ f.historyOffset = 0
     /\ Len(f.History) = IF Len(Kept(snaps[1])) < f.HistoryMaxActions
                         THEN Len(Kept(snaps[1])) + 1 ELSE f.HistoryMaxActions
     /\ f.History[Len(f.History)].type = "HistoryPixel"
     /\ Forget(Undo(f)).historyOffset = 1
     /\ LayerColors(Forget(Undo(f))) = LayerColors(snaps[1])

\* a coordinate that the move vacated and the commit stamped with another
\* colour, next to a stamped coordinate that was not selected
C27_Witness ==
  /\ MovedAndCommitted /\ ~snaps[1].IsSelectionPasted
  /\ LET ps == f.History[Len(f.History)].PixelState
         sel == DOMAIN snaps[1].Selection
     IN /\ \E p \in DOMAIN ps \cap sel :
              /\ ps[p].Prev \in Opaque /\ ps[p].Current \in Opaque
              /\ ps[p].Prev # ps[p].Current
              /\ Get(CurrentMap(f), p) = ps[p].Current
              /\ Get(CurrentMap(snaps[1]), p) = ps[p].Prev
        /\ \E p \in DOMAIN ps \cap sel : ps[p].Current = Transparent

\* the coordinates inside the bounds b = (x0, y0, x1, y1) of a selection
InBounds(b, p) == b[1] <= p[1] /\ p[1] <= b[3] /\ b[2] <= p[2] /\ p[2] <= b[4]

\* the coordinate a flip of the selection exchanges p with
BoundsMirror(op, b, p) ==
  IF op = "FlipHorizontal" THEN <<b[1] + b[3] - p[1], p[2]>>
  ELSE <<p[1], b[2] + b[4] - p[2]>>

\* the selection of h is that of g mirrored inside the bounds: outside the
\* bounds no key is added, removed or changed
MirroredInBounds(op, g, h) ==
  LET b == g.SelectionBounds
  IN /\ h.SelectionBounds = b
     /\ \A p \in (DOMAIN g.Selection) \cup (DOMAIN h.Selection) :
           IF InBounds(b, p)
           THEN Get(h.Selection, p) = Get(g.Selection, BoundsMirror(op, b, p))
           ELSE /\ p \in DOMAIN g.Selection /\ p \in DOMAIN h.Selection
                /\ h.Selection[p] = g.Selection[p]

C30_PasteCommitsFirst ==
  [][(last'.op = "Paste" /\ ~f'.panicked) =>
       /\ f'.Selection = f.CopiedSelection
       /\ f'.SelectionBounds = f.CopiedSelectionBounds
       /\ f'.DoingSelection /\ f'.IsSelectionPasted
       /\ f.SelectionMoving =>
            \A p \in DOMAIN f.Selection :
               InCanvas(f, p) =>
                 LET n == Len(f'.History)
                     color == BlendWithOpacity(Get(CurrentMap(f), p), f.Selection[p])
                 IN /\ Get(CurrentMap(f'), p) = color
                    /\ n >= 1
                    /\ f'.History[n].type = "HistoryPixel"
                    /\ p \in DOMAIN f'.History[n].PixelState
                    /\ f'.History[n].PixelState[p].Current = color
    ]_vars

\* C31: CancelSelection leaves the selection empty, not active and not
\* moving, and leaves History, historyOffset, the layers and every layer's
\* pixel map as they were before the call.
C31_CancelLeavesHistory ==
  [][(last'.op = "CancelSelection") =>
       /\ f'.Selection = EmptyMap
       /\ ~f'.DoingSelection /\ ~f'.SelectionMoving
       /\ f'.History = f.History
       /\ f'.historyOffset = f.historyOffset
       /\ f'.Layers = f.Layers
       /\ f'.LayerPixelData = f.LayerPixelData
       /\ f'.Maps = f.Maps
    ]_vars

\* a cancel of a red pixel that had been moved: the entry of the move stays
C31_Witness ==
  /\ last.op = "CancelSelection" /\ prev.op = "MoveSelection"
  /\ f.Selection = EmptyMap /\ ~f.DoingSelection /\ ~f.SelectionMoving
  /\ Len(f.History) >= 1 /\ f.historyOffset = 0
  /\ \E p \in DOMAIN f.History[Len(f.History)].PixelState :
        f.History[Len(f.History)].PixelState[p] = [Prev |-> Red, Current |-> Transparent]

\* the document after Undo and then Redo
UndoRedo(g) == Forget(Redo(Forget(Undo(g))))

\* C32: in every state with an entry left to undo, Undo and then Redo give
\* the same layers in the same order, the same colours in every layer, the
\* same canvas size and the same historyOffset as before the Undo.
C32_UndoThenRedo ==
  (~f.panicked /\ f.historyOffset < Len(f.History)) =>
     /\ ~UndoRedo(f).panicked
     /\ UndoRedo(f).Layers = f.Layers
     /\ LayerColors(UndoRedo(f)) = LayerColors(f)
     /\ UndoRedo(f).CanvasWidth = f.CanvasWidth
     /\ UndoRedo(f).CanvasHeight = f.CanvasHeight
     /\ UndoRedo(f).historyOffset = f.historyOffset

\* C33: a frame of Draw leaves every layer with the colours it had: the
\* initial fill overwrites no pixel that Open loaded or DrawPixel wrote, also
\* on the first frame a layer is the current one.
C33_FillKeepsPixels ==
  [][(last'.op = "Draw" /\ ~f'.panicked) =>
       /\ f'.Layers = f.Layers
       /\ LayerColors(f') = LayerColors(f)
    ]_vars

\* C34: the pre-resize snapshot of every ResizeOp entry in History holds,
\* for each layer, the pixel map the layer had just before that resize,
\* whatever was written to the layers afterwards.
C34_SnapshotsIndependent ==
  ~f.panicked =>
    \A k \in 1..Len(f.History) :
       (f.History[k].type = "HistoryResize" /\ k <= Len(snaps)) =>
          \A i \in 1..Len(f.History[k].PrevLayerState) :
             f.Maps[f.History[k].PrevLayerState[i]] = snaps[k].PixelData[i]

\* C35: after Paste and the CommitSelection right after it, every pixel of
\* the clipboard that is not transparent and lies inside the canvas is the
\* colour of the current layer at its coordinate and is recorded with that
\* colour as current in the newest entry of History, a PixelEdit entry that
\* is not undone.
C35_PasteCommitRecorded ==
  (prev.op = "Paste" /\ last.op = "CommitSelection" /\ ~f.panicked) =>
     \A p \in DOMAIN f.CopiedSelection :
        (InCanvas(f, p) /\ f.CopiedSelection[p] # Transparent) =>
           LET n == Len(f.History)
           IN /\ Get(CurrentMap(f), p) = f.CopiedSelection[p]
              /\ n >= 1 /\ f.historyOffset = 0
              /\ f.History[n].type = "HistoryPixel"
              /\ p \in DOMAIN f.History[n].PixelState
              /\ f.History[n].PixelState[p].Current = f.CopiedSelection[p]

\* C36: IsSelectionPasted is set only while a selection is active, and it
\* is not set after CancelSelection, after DeleteSelection and after an Undo
\* that discarded the selection.
C36_PastedOnlyWhileActive ==
  ~f.panicked =>
     /\ f.IsSelectionPasted => f.DoingSelection
     /\ last.op \in {"CancelSelection", "DeleteSelection"} => ~f.IsSelectionPasted
     /\ (last.op = "Undo" /\ ~f.DoingSelection) => ~f.IsSelectionPasted

\* the entry a call of Undo or Redo in the document g works on
WorkedEntry(op, g) ==
  IF op = "Undo" THEN g.History[Len(g.History) - g.historyOffset]
  ELSE g.History[Len(g.History) - g.historyOffset + 1]

\* the call `op` in g works on a PixelEdit entry
WorksOnPixelEdit(op, g) ==
  /\ op \in {"Undo", "Redo"}
  /\ IF op = "Undo" THEN g.historyOffset < Len(g.History) ELSE g.historyOffset > 0
  /\ WorkedEntry(op, g).type = "HistoryPixel"

\* the pixel map of the layer at a 1-based position of Layers
MapAt(g, i) == g.Maps[g.LayerPixelData[g.Layers[i]]]

\* C37: Undo and Redo of a PixelEdit entry leave the layers and their order,
\* the canvas size and CurrentLayer as they were, leave the pixel map of
\* every layer but the one the entry names as it was, and change the named
\* layer's map at no coordinate outside the entry's deltas.
C37_PixelEditFrame ==
  [][(WorksOnPixelEdit(last'.op, f) /\ ~f'.panicked) =>
       LET entry == WorkedEntry(last'.op, f)
       IN /\ f'.Layers = f.Layers
          /\ f'.CanvasWidth = f.CanvasWidth /\ f'.CanvasHeight = f.CanvasHeight
          /\ f'.CurrentLayer = f.CurrentLayer
          /\ \A i \in 1..Len(f.Layers) :
                IF i = entry.LayerIndex + 1
                THEN \A p \in ((DOMAIN MapAt(f, i)) \cup (DOMAIN MapAt(f', i)))
                                 \ DOMAIN entry.PixelState :
                        /\ p \in DOMAIN MapAt(f, i) /\ p \in DOMAIN MapAt(f', i)
                        /\ MapAt(f', i)[p] = MapAt(f, i)[p]
                ELSE MapAt(f', i) = MapAt(f, i)
    ]_vars

\* an Undo that took a red pixel back out of a layer that is not the current
\* one, next to a pixel that no delta names
C37_Witness ==
  /\ last.op = "Undo" /\ ~f.panicked /\ f.historyOffset >= 1
  /\ UndoneEntry.type = "HistoryPixel"
  /\ UndoneEntry.LayerIndex # f.CurrentLayer
  /\ ValidIndex(f, UndoneEntry.LayerIndex)
  /\ \E p \in DOMAIN UndoneEntry.PixelState :
        /\ UndoneEntry.PixelState[p] = [Prev |-> Transparent, Current |-> Red]
        /\ Get(MapAt(f, UndoneEntry.LayerIndex + 1), p) = Transparent
  /\ \E p \in DOMAIN MapAt(f, f.CurrentLayer + 1) :
        MapAt(f, f.CurrentLayer + 1)[p] = Red

\* C38: in every state reached by AddNewLayer, DeleteLayer, MergeLayerDown,
\* RestoreLayer, Undo and Redo, CurrentLayer is at least 0 and at most
\* len(Layers) - 2.
C38_CurrentLayerInRange ==
  ~f.panicked => (0 <= f.CurrentLayer /\ f.CurrentLayer <= Len(f.Layers) - 2)

\* the new layer on top was the current one and a DeleteLayer removed a
\* layer: CurrentLayer came down to the top addressable layer
C38_Witness ==
  /\ prev.op = "AddNewLayer" /\ last.op = "DeleteLayer" /\ ~last.err
  /\ ~f.panicked
  /\ Len(f.Layers) = 3
  /\ f.CurrentLayer = Len(f.Layers) - 2

\* every delayed hide that was started has finished
HidesFinished == \A i \in 1..Len(menu.hides) : menu.hides[i].pc = "done"

\* C39: whenever the pointer is over a menu button and every delayed hide
\* has finished, the four drop-down buttons are shown.
C39_ShownWhileHovered ==
  (menu.over # {} /\ HidesFinished) =>
     \A b \in DropDownButtons : menu.shown[b]

====
